---------------------------- MODULE Spec2Model ----------------------------
(***************************************************************************)
(* A state-machine model of the photo gallery client:                      *)
(*   - the session store (auth.js: window.authStatus, localStorage key     *)
(*     "photoGalleryAuth", checkAuthFromHash, setAuthenticatedUser,        *)
(*     clearAuthData, logoutUser, redirectToLogin/Register, the expiry     *)
(*     watchdog),                                                          *)
(*   - the Alpine view component (js/app.js: init and its listeners,       *)
(*     fetchPhotos, handleFileSelect, uploadFile, uploadToS3,              *)
(*     startImageProcessingMonitor).                                       *)
(*                                                                         *)
(* JavaScript runs one task at a time, so every handler is one atomic      *)
(* action; a handler that awaits is split at the await into the part that  *)
(* runs on the call and the part that runs when the awaited I/O settles.   *)
(* window.dispatchEvent is synchronous: the view's listener runs inside    *)
(* the action that dispatches.                                             *)
(*                                                                         *)
(* Time.  The code only ever compares a timestamp with "now" and sets a    *)
(* timestamp to "now + delay", so every timestamp and every timer is kept  *)
(* as an offset in milliseconds from the current instant; letting d ms     *)
(* pass (Advance) lowers every offset by d.  Offsets of instants in the    *)
(* past are clamped at PastFloor: the code cannot tell two past instants   *)
(* apart.  A timer whose offset is 0 is due and fires before time passes.  *)
(***************************************************************************)
EXTENDS Integers, Sequences, FiniteSets, TLC

VARIABLES
    doc,          \* document.readyState, or "closed" when the page is not loaded
    location,     \* where the browser points: "app", "login", "register"
    urlCode,      \* the `code` query parameter of the page URL, NoCode if absent
    authStatus,   \* window.authStatus
    localStorage, \* the text stored under "photoGalleryAuth"
    timers,       \* pending setTimeout / setInterval deadlines of auth.js and init
    listening,    \* the view component's init() has run (its listeners exist)
    app,          \* the reactive fields of the Alpine component
    inflight,     \* listing requests of fetchPhotos awaiting their response
    xhr,          \* the storage-write transfer (XMLHttpRequest) of uploadToS3
    monitor,      \* the monitoring loop of startImageProcessingMonitor
    modal,        \* pending callbacks of the photo modal: close timeouts, image loads
    loads,        \* page loads so far
    exchanges,    \* history: code exchanges since the code in the URL arrived
    emitted,      \* history: the auth:statusChanged events dispatched by the last step
    lastOp,       \* history: the handler the last step ran, and the session before it
    config        \* window._env, window.AppConfig and the scripts that make them

vars == << doc, location, urlCode, authStatus, localStorage, timers, listening,
           app, inflight, xhr, monitor, modal, loads, exchanges, emitted, lastOp,
           config >>

----------------------------------------------------------------------------
(* Bounds of the model *)

\* listing requests in flight at once
MaxInFlight == 3

\* page loads of one run
MaxLoads == 2

\* code exchanges counted by the history counter before it saturates
MaxCount == 2

\* transfers started on one page
MaxUploads == 2

\* poll callbacks awaiting their listing request at once
MaxAwaiting == 2

\* callbacks of the photo modal pending at once, of each kind
MaxPending == 2

\* event.total of the transfer's progress events, in chunks
MaxChunks == 1

\* lines of a served .env file
MaxLines == 2

----------------------------------------------------------------------------
(* Program constants *)

\* expires_in of the token made from the authorization code, seconds
ExpiresIn == 3600

\* lifetime used when the token data carries no expires_in, seconds
DefaultExpiresIn == 3600

\* delay of the startup auth check after DOMContentLoaded, ms
StartupDelay == 200

\* delay of the view's auth check after the load event, ms
LoadDelay == 200

\* delay between redirectToLogin/Register and the navigation, ms
RedirectDelay == 100

\* period of the expiry watchdog, ms
WatchdogInterval == 60000

\* period of the monitoring poll, ms
PollInterval == 10000

\* seconds added to `elapsed` on each poll
PollStep == 10

\* expected processing time of the monitor, seconds
TotalExpectedTime == 60

\* seconds past the expected time after which the monitor gives up
ExtraTime == 10

\* cap of the synthetic progress until completion
ProgressCap == 95

\* delay between closePhotoModal and the clearing of the selection, ms
CloseDelay == 300

\* delay between completion and hiding the processing UI, ms
DismissDelay == 2000

\* delay between hiding the processing UI and clearing uploadSuccess, ms
SuccessDelay == 5000

----------------------------------------------------------------------------
(* JavaScript values *)

\* a string-valued field that is undefined (JSON.stringify drops it, reading
\* it back yields undefined again)
Undefined == "<undefined>"

\* URLSearchParams.get("code") when the URL has no code parameter (null)
NoCode == "<null>"

\* `if (s)` on a string-or-undefined value
Truthy(s) == s # "" /\ s # Undefined /\ s # NoCode

\* a || b on strings
Or(a, b) == IF Truthy(a) THEN a ELSE b

\* an unarmed timer
Unarmed == -1

\* offset at which instants in the past are clamped
PastFloor == -1

\* tokenExpiry values: null, a missing field, the ISO text of an instant
\* (offset ms from now), or a text that is no date
JSNull == [t |-> "null", ms |-> 0]
Missing == [t |-> "undef", ms |-> 0]
BadDate == [t |-> "bad", ms |-> 0]

\* new Date() + delay and Date.prototype.toISOString: the ISO text of the
\* instant `ms` milliseconds from now (millisecond precision, so exact)
toISOString(ms) == [t |-> "iso", ms |-> ms]

\* `if (v)` on a tokenExpiry value: a non-empty string is truthy
TruthyTime(v) == v.t \in {"iso", "bad"}

\* new Date(v) > new Date(): false for an Invalid Date (NaN)
InFuture(v) == v.t = "iso" /\ v.ms > 0

\* new Date(v) <= new Date(): false for an Invalid Date (NaN)
NotInFuture(v) == v.t = "iso" /\ v.ms <= 0

\* the same instant seen d ms later
Shift(v, d) ==
    IF v.t = "iso"
    THEN [v EXCEPT !.ms = IF v.ms - d < PastFloor THEN PastFloor ELSE v.ms - d]
    ELSE v

----------------------------------------------------------------------------
(* Inputs *)

\* authorization codes the identity provider may return (short, without dots)
Codes == {"c2"}

\* the session object as setAuthenticatedUser persists it, with the given expiry
SavedSession(expiry) ==
    [isAuthenticated |-> TRUE, username |-> "Authenticated User",
     token |-> "id-c1", tokenExpiry |-> expiry, loading |-> FALSE]

\* the empty session of auth.js
EmptySession ==
    [isAuthenticated |-> FALSE, username |-> "", token |-> "",
     tokenExpiry |-> JSNull, loading |-> FALSE]

\* localStorage.getItem: no item, the empty text, a text that is no JSON, the
\* JSON text `null`, or the JSON text of an object
NoItem == [kind |-> "absent", obj |-> EmptySession]
EmptyText == [kind |-> "empty", obj |-> EmptySession]
GarbageText == [kind |-> "garbage", obj |-> EmptySession]
NullText == [kind |-> "null", obj |-> EmptySession]

\* JSON.stringify of a session object
JSONstringify(o) == [kind |-> "json", obj |-> o]

\* id_tokens setAuthenticatedUser may be handed: the program's own, texts of
\* two and of three parts whose middle part is not base64, is base64 of a
\* text that is no JSON, of `null`, of an object without the fields, or of an
\* object with one of them
IdTokens ==
    {"id-c2", "h.e30=", "h.e-_0.s", "h.bm90anNvbg==.s", "h.bnVsbA==.s", "h.e30=.s",
     "h.eyJuYW1lIjoiQW5uIn0=.s", "h.eyJlbWFpbCI6ImFubkB4Lm9yZyJ9.s",
     "h.eyJ1c2VybmFtZSI6ImFubiJ9.s",
     "h.eyJuYW1lIjoiIiwiZW1haWwiOiJhbm5AeC5vcmcifQ==.s"}

\* token data: each text field absent, empty or present, expires_in absent
\* (0) or a number of seconds
TokenDatas ==
    [username : {Undefined, "", "Authenticated User"},
     token : {Undefined, "cognito-token-c2"},
     id_token : {Undefined, ""} \cup IdTokens,
     access_token : {Undefined, "access-c2"},
     expires_in : {0, ExpiresIn}]

\* what the storage may hold when the page is first loaded: nothing, a text that
\* does not parse, or a session persisted by an earlier visit whose expiry is
\* absent, unreadable, past, now, or still ahead
InitialStorage ==
    {NoItem, EmptyText, GarbageText, NullText}
    \cup {JSONstringify(SavedSession(e)) :
            e \in {Missing, JSNull, BadDate, toISOString(PastFloor), toISOString(0),
                   toISOString(1), toISOString(DefaultExpiresIn * 1000)}}

----------------------------------------------------------------------------
(* The view component's reactive fields (js/app.js 19-112) *)

\* null of a message field
NoError == << >>

\* null of fileToUpload
NoFile == "<null>"

\* null of selectedPhoto; a selected photo is kept as the one-element sequence
\* of it
NoPhoto == << >>

AppData(auth) ==
    [isAuthenticated |-> auth.isAuthenticated,
     username |-> auth.username,
     authLoading |-> auth.loading,
     photos |-> << >>,
     loading |-> TRUE,
     error |-> NoError,
     fileToUpload |-> NoFile,
     uploading |-> FALSE,
     uploadProgress |-> 0,
     uploadError |-> NoError,
     uploadSuccess |-> FALSE,
     processingImage |-> FALSE,
     processingProgress |-> 0,
     processingMessage |-> "",
     selectedPhoto |-> NoPhoto,
     showModal |-> FALSE,
     modalLoading |-> FALSE]

----------------------------------------------------------------------------
(* The world a handler reads and writes while it runs *)

World ==
    [auth |-> authStatus, store |-> localStorage, url |-> urlCode, app |-> app,
     inflight |-> inflight, exchanges |-> exchanges, listening |-> listening,
     emitted |-> << >>]

\* fetchPhotos up to its first await (js/app.js 181-187): the flags are set and
\* one listing request is issued
fetchPhotosCall(w) ==
    [w EXCEPT !.app.loading = TRUE, !.app.error = NoError, !.inflight = @ + 1]

\* a variant: the listener copies the session and never asks for the listing
onStatusChanged_noFetch(w) ==
    LET m == [w EXCEPT !.app.isAuthenticated = w.auth.isAuthenticated,
                       !.app.username = w.auth.username,
                       !.app.authLoading = w.auth.loading]
    IN  IF ~m.app.isAuthenticated /\ ~m.app.authLoading
        THEN [m EXCEPT !.app.photos = << >>]
        ELSE m

\* a variant: the listener empties the photo set whenever the session is not
\* authenticated, also while it is loading
onStatusChanged_clearsWhileLoading(w) ==
    LET m == [w EXCEPT !.app.isAuthenticated = w.auth.isAuthenticated,
                       !.app.username = w.auth.username,
                       !.app.authLoading = w.auth.loading]
    IN  IF m.app.isAuthenticated THEN fetchPhotosCall(m)
        ELSE [m EXCEPT !.app.photos = << >>]

\* the view's auth:statusChanged listener (js/app.js 144-160)
onStatusChanged(w) ==
    LET m == [w EXCEPT !.app.isAuthenticated = w.auth.isAuthenticated,
                       !.app.username = w.auth.username,
                       !.app.authLoading = w.auth.loading]
    IN  IF m.app.isAuthenticated THEN fetchPhotosCall(m)
        ELSE IF ~m.app.authLoading THEN [m EXCEPT !.app.photos = << >>]
        ELSE m

\* window.dispatchEvent(authStatusChangedEvent), issued by `by`: the listeners run
\* before it returns; the event is recorded with the session and the persisted
\* text as they are when it is dispatched
dispatchEvent(w, by) ==
    LET e == [by |-> by, session |-> w.auth, stored |-> w.store]
        n == [w EXCEPT !.emitted = Append(@, e)]
    IN  IF w.listening THEN onStatusChanged(n) ELSE n

----------------------------------------------------------------------------
(* The session store (auth.js) *)

\* a variant: the username of the token data is ignored
deriveUsername_ignoresName(tokenData) == "User"

\* a thrown exception, as a value
Thrown == "<thrown>"

\* id_token.split(".") on the id_tokens considered: a text without a dot (the
\* "id-" + code of this program) is one part
split(s) ==
    CASE s = "h.e30=" -> << "h", "e30=" >>
      [] s = "h.e30=.s" -> << "h", "e30=", "s" >>
      [] s = "h.e-_0.s" -> << "h", "e-_0", "s" >>
      [] s = "h.bm90anNvbg==.s" -> << "h", "bm90anNvbg==", "s" >>
      [] s = "h.bnVsbA==.s" -> << "h", "bnVsbA==", "s" >>
      [] s = "h.eyJuYW1lIjoiQW5uIn0=.s" -> << "h", "eyJuYW1lIjoiQW5uIn0=", "s" >>
      [] s = "h.eyJlbWFpbCI6ImFubkB4Lm9yZyJ9.s" ->
            << "h", "eyJlbWFpbCI6ImFubkB4Lm9yZyJ9", "s" >>
      [] s = "h.eyJ1c2VybmFtZSI6ImFubiJ9.s" -> << "h", "eyJ1c2VybmFtZSI6ImFubiJ9", "s" >>
      [] s = "h.eyJuYW1lIjoiIiwiZW1haWwiOiJhbm5AeC5vcmcifQ==.s" ->
            << "h", "eyJuYW1lIjoiIiwiZW1haWwiOiJhbm5AeC5vcmcifQ==", "s" >>
      [] OTHER -> << s >>

\* atob: the text a base64 part encodes; it throws on a character outside the
\* base64 alphabet (the "-" and "_" of base64url among them)
atob(part) ==
    CASE part = "e30=" -> "{}"
      [] part = "bm90anNvbg==" -> "notjson"
      [] part = "bnVsbA==" -> "null"
      [] part = "eyJuYW1lIjoiQW5uIn0=" -> "{\"name\":\"Ann\"}"
      [] part = "eyJlbWFpbCI6ImFubkB4Lm9yZyJ9" -> "{\"email\":\"ann@x.org\"}"
      [] part = "eyJ1c2VybmFtZSI6ImFubiJ9" -> "{\"username\":\"ann\"}"
      [] part = "eyJuYW1lIjoiIiwiZW1haWwiOiJhbm5AeC5vcmcifQ==" ->
            "{\"name\":\"\",\"email\":\"ann@x.org\"}"
      [] OTHER -> Thrown

\* a payload object by its name, email and username fields
Payload(name, email, username) ==
    [kind |-> "object", name |-> name, email |-> email, username |-> username]

\* JSON.parse of a decoded part: an object, null, or a SyntaxError
JSONparsePayload(text) ==
    CASE text = "{}" -> Payload(Undefined, Undefined, Undefined)
      [] text = "{\"name\":\"Ann\"}" -> Payload("Ann", Undefined, Undefined)
      [] text = "{\"email\":\"ann@x.org\"}" -> Payload(Undefined, "ann@x.org", Undefined)
      [] text = "{\"username\":\"ann\"}" -> Payload(Undefined, Undefined, "ann")
      [] text = "{\"name\":\"\",\"email\":\"ann@x.org\"}" ->
            Payload("", "ann@x.org", Undefined)
      [] text = "null" -> [Payload(Undefined, Undefined, Undefined) EXCEPT !.kind = "null"]
      [] OTHER -> [Payload(Undefined, Undefined, Undefined) EXCEPT !.kind = Thrown]

\* a variant: the payload's fields are read without the final generic label
deriveUsername_noFallback(tokenData) ==
    IF Truthy(tokenData.username) THEN tokenData.username
    ELSE IF ~Truthy(tokenData.id_token) THEN "User"
    ELSE LET tokenParts == split(tokenData.id_token)
             text == atob(tokenParts[2])
             payload == JSONparsePayload(text)
         IN  IF Len(tokenParts) # 3 THEN "User"
             ELSE IF text = Thrown \/ payload.kind # "object" THEN "User"
             ELSE Or(Or(payload.name, payload.email), payload.username)

\* the username setAuthenticatedUser derives (part_001 595-609): the
\* username of the token data, else the name, email or username of the
\* id_token's middle part; whatever the decoding throws (atob, JSON.parse,
\* the read of a field of null) is caught and leaves the generic label.  The
\* id_token of this program is "id-" + code, which has one part.
deriveUsername(tokenData) ==
    IF Truthy(tokenData.username) THEN tokenData.username
    ELSE IF ~Truthy(tokenData.id_token) THEN "User"
    ELSE LET tokenParts == split(tokenData.id_token)
             text == atob(tokenParts[2])
             payload == JSONparsePayload(text)
         IN  IF Len(tokenParts) # 3 THEN "User"
             ELSE IF text = Thrown \/ payload.kind # "object" THEN "User"
             ELSE Or(Or(Or(payload.name, payload.email), payload.username), "User")

\* a variant: the token is taken from id_token or access_token only
setAuthenticatedUser_noTokenField(w, tokenData) ==
    LET session == [isAuthenticated |-> TRUE,
                    username |-> deriveUsername(tokenData),
                    token |-> Or(tokenData.id_token, tokenData.access_token),
                    tokenExpiry |-> toISOString(DefaultExpiresIn * 1000),
                    loading |-> FALSE]
        stored == [w EXCEPT !.auth = session, !.store = JSONstringify(session)]
    IN  dispatchEvent(stored, "setAuthenticatedUser")

\* a variant: the event is dispatched before the session is persisted
setAuthenticatedUser_dispatchFirst(w, tokenData) ==
    LET session == [isAuthenticated |-> TRUE,
                    username |-> deriveUsername(tokenData),
                    token |-> Or(Or(tokenData.id_token, tokenData.access_token),
                                 tokenData.token),
                    tokenExpiry |-> toISOString(DefaultExpiresIn * 1000),
                    loading |-> FALSE]
        told == dispatchEvent([w EXCEPT !.auth = session], "setAuthenticatedUser")
    IN  [told EXCEPT !.store = JSONstringify(session)]

\* setAuthenticatedUser(tokenData) (part_001 583-638)
setAuthenticatedUser(w, tokenData) ==
    LET expiresIn == IF tokenData.expires_in # 0 THEN tokenData.expires_in
                     ELSE DefaultExpiresIn
        session == [isAuthenticated |-> TRUE,
                    username |-> deriveUsername(tokenData),
                    token |-> Or(Or(tokenData.id_token, tokenData.access_token),
                                 tokenData.token),
                    tokenExpiry |-> toISOString(expiresIn * 1000),
                    loading |-> FALSE]
        stored == [w EXCEPT !.auth = session, !.store = JSONstringify(session)]
    IN  dispatchEvent(stored, "setAuthenticatedUser")

\* a variant: the persisted copy is left in place
clearAuthData_keepsStored(w) ==
    dispatchEvent([w EXCEPT !.auth = EmptySession], "clearAuthData")

\* clearAuthData() (part_001 641-654)
clearAuthData(w) ==
    dispatchEvent([w EXCEPT !.auth = EmptySession, !.store = NoItem], "clearAuthData")

\* the token data checkAuthFromHash builds from the code (part_001 529-536);
\* substring(0, 8) keeps a code of at most 8 characters whole
AuthDataOfCode(code) ==
    [username |-> "Authenticated User", token |-> "cognito-token-" \o code,
     id_token |-> "id-" \o code, access_token |-> "access-" \o code,
     expires_in |-> ExpiresIn]

\* a parsed session object read as token data: it has no id_token, no
\* access_token and no expires_in
AuthDataOfSaved(o) ==
    [username |-> o.username, token |-> o.token, id_token |-> Undefined,
     access_token |-> Undefined, expires_in |-> 0]

\* a variant: the restored session keeps the persisted tokenExpiry
restoreSession_keepsExpiry(w) ==
    IF w.store.kind \in {"absent", "empty"} THEN w
    ELSE IF w.store.kind # "json" THEN clearAuthData(w)
    ELSE IF TruthyTime(w.store.obj.tokenExpiry) /\ InFuture(w.store.obj.tokenExpiry)
         THEN LET s == setAuthenticatedUser(w, AuthDataOfSaved(w.store.obj))
              IN  [s EXCEPT !.auth.tokenExpiry = w.store.obj.tokenExpiry,
                            !.store.obj.tokenExpiry = w.store.obj.tokenExpiry]
         ELSE clearAuthData(w)

\* the no-code branch of checkAuthFromHash (part_001 551-570)
restoreSession(w) ==
    IF w.store.kind \in {"absent", "empty"} THEN w           \* if (savedAuth)
    ELSE IF w.store.kind # "json" THEN clearAuthData(w)      \* parse or read throws
    ELSE IF TruthyTime(w.store.obj.tokenExpiry) /\ InFuture(w.store.obj.tokenExpiry)
         THEN setAuthenticatedUser(w, AuthDataOfSaved(w.store.obj))
         ELSE clearAuthData(w)

\* a variant: the code is left in the URL
exchangeCode_keepsCode(w) ==
    LET s == setAuthenticatedUser(w, AuthDataOfCode(w.url))
    IN  [s EXCEPT !.exchanges = IF @ < MaxCount THEN @ + 1 ELSE @]

\* the code branch of checkAuthFromHash (part_001 522-548): the exchange, then
\* history.replaceState drops the query string
exchangeCode(w) ==
    LET s == setAuthenticatedUser(w, AuthDataOfCode(w.url))
    IN  [s EXCEPT !.url = NoCode,
                  !.exchanges = IF @ < MaxCount THEN @ + 1 ELSE @]

\* checkAuthFromHash sets the loading flag first (part_001 516)
beginCheck(w) == [w EXCEPT !.auth.loading = TRUE]

\* window.checkAuthFromHash() (part_001 514-576)
checkAuthFromHash(w) ==
    LET begun == beginCheck(w)
        worked == IF Truthy(begun.url) THEN exchangeCode(begun)
                  ELSE restoreSession(begun)
    IN  dispatchEvent([worked EXCEPT !.auth.loading = FALSE], "checkAuthFromHash")

\* a variant: the comparison with the current time is reversed
checkExpiry_reversed(w) ==
    IF TruthyTime(w.auth.tokenExpiry) /\ InFuture(w.auth.tokenExpiry)
    THEN clearAuthData(w)
    ELSE w

\* the watchdog's callback (part_001 708-716)
checkExpiry(w) ==
    IF TruthyTime(w.auth.tokenExpiry) /\ NotInFuture(w.auth.tokenExpiry)
    THEN clearAuthData(w)
    ELSE w

\* a variant: the redirect drops the session it leaves behind
beginRedirect_dropsSession(w, by) ==
    dispatchEvent([w EXCEPT !.auth = [EmptySession EXCEPT !.loading = TRUE]], by)

\* redirectToLogin / redirectToRegister up to the setTimeout (part_001 666-689)
beginRedirect(w, by) ==
    dispatchEvent([w EXCEPT !.auth.loading = TRUE], by)

----------------------------------------------------------------------------
(* Page life cycle and timers *)

NoTimers ==
    [startup |-> Unarmed, load |-> Unarmed, redirect |-> Unarmed,
     redirectTo |-> "", watchdog |-> Unarmed]

\* no transfer is under way; `sent` counts the requests made so far
NoXhr == [active |-> FALSE, file |-> NoFile, bearer |-> Undefined, sent |-> 0]

\* no monitoring: no poll interval and none of its timeouts is pending.  A loop
\* is the closure of one startImageProcessingMonitor call; of two pending
\* timeouts of the same kind and deadline one is kept, their callbacks being
\* the same idempotent assignment
NoMonitor == [loops |-> << >>, timeouts |-> {}]

\* no callback of the modal is pending: `closing` are the offsets of the close
\* timeouts in the order they were set, `images` counts the full-size images
\* still loading, `latest` tells whether the image of the photo opened last
\* is one of them
NoModal == [closing |-> << >>, images |-> 0, latest |-> FALSE]

\* the offsets of the monitoring loops' next poll ticks and pending timeouts
MonitorDeadlines ==
    {monitor.loops[i].poll : i \in {j \in 1..Len(monitor.loops) : monitor.loops[j].polling}}
        \cup {t.at : t \in monitor.timeouts}

\* the armed timers' offsets, the watchdog's apart
Deadlines ==
    ({timers.startup, timers.load, timers.redirect} \ {Unarmed}) \cup MonitorDeadlines
        \cup {modal.closing[i] : i \in 1..Len(modal.closing)}

\* a timer is due: it fires before time passes
Due == 0 \in Deadlines \cup {timers.watchdog}

\* the first tick, at or after the instant t ms from now, of the interval timer
\* whose next tick is wd ms from now
TickAtOrAfter(wd, t) ==
    IF t <= wd THEN wd
    ELSE wd + ((t - wd + WatchdogInterval - 1) \div WatchdogInterval) * WatchdogInterval

\* the watchdog tick that finds the session expired, if the session has an expiry
ExpiryTick ==
    IF timers.watchdog # Unarmed /\ authStatus.tokenExpiry.t = "iso"
    THEN {TickAtOrAfter(timers.watchdog, authStatus.tokenExpiry.ms)}
    ELSE {}

\* the amounts of time that may pass next.  Time stops at the next one-shot
\* deadline and at the watchdog tick that finds the session expired; the
\* watchdog's earlier ticks change nothing and are passed over.  Within that
\* limit time moves to a deadline, to that tick, to the next tick of a session
\* without expiry, to the instant a token (in memory or persisted) expires, or
\* one ms past that instant.
Delays ==
    LET expiries == {v.ms : v \in {x \in {authStatus.tokenExpiry,
                                          localStorage.obj.tokenExpiry} : x.t = "iso"}}
        idleTick == IF timers.watchdog # Unarmed /\ authStatus.tokenExpiry.t # "iso"
                    THEN {timers.watchdog} ELSE {}
        steps == Deadlines \cup ExpiryTick \cup idleTick \cup expiries
                 \cup (IF 0 \in expiries THEN {1} ELSE {})
    IN  {d \in steps : d > 0 /\ \A t \in Deadlines \cup ExpiryTick : d <= t}

\* the interval timer's offset d ms later
NextTick(wd, d) ==
    IF wd = Unarmed THEN Unarmed
    ELSE IF d <= wd THEN wd - d
    ELSE LET r == (d - wd) % WatchdogInterval
         IN  IF r = 0 THEN 0 ELSE WatchdogInterval - r

\* d ms later: every armed timer is d ms closer
Elapse(t, d) == IF t = Unarmed THEN Unarmed ELSE t - d

\* what a handler leaves alone besides the world it works on
Commit(w) ==
    /\ w.inflight <= MaxInFlight
    /\ authStatus' = w.auth
    /\ localStorage' = w.store
    /\ urlCode' = w.url
    /\ app' = w.app
    /\ inflight' = w.inflight
    /\ exchanges' = w.exchanges
    /\ emitted' = w.emitted

\* no monitoring loop
NoLoop ==
    [polling |-> FALSE, initialPhotoCount |-> 0, elapsed |-> 0, poll |-> Unarmed,
     awaiting |-> 0]

\* no listing response
NoOutcome == [kind |-> "none", items |-> << >>]

\* history: the handler a step runs, whether the session was authenticated
\* when it began, for the end of a transfer xhr.status, for the end of a poll
\* the loop as the poll's continuation found it, and for the end of a listing
\* request how it ended
Op(name) ==
    [op |-> name, was |-> authStatus.isAuthenticated, status |-> 0, loop |-> NoLoop,
     outcome |-> NoOutcome]

\* the page is loaded and its scripts have run
Open == doc # "closed"

\* ---- configuration: js/env-loader.js and js/config.js ----

\* the settings followed here, of the eight CONFIG reads with getEnv
ConfigKeys == {"API_PHOTOS_ENDPOINT", "REDIRECT_URI"}

\* the hardcoded default of a setting
defaultValue(key) ==
    CASE key = "API_PHOTOS_ENDPOINT" ->
            "https://hj9ps33iv0.execute-api.us-east-1.amazonaws.com/prod/photos/"
      [] key = "REDIRECT_URI" -> "https://d84l1y8p4kdic.cloudfront.net"

\* an object with none of the settings: {}
EmptyEnv == [k \in ConfigKeys |-> Undefined]

\* process.env as a build tool may provide it: a setting is missing, empty or set
BuildValues == {Undefined, "", "https://build.example"}
ProcessEnvs == [ConfigKeys -> BuildValues]

\* lines a .env file may hold
EnvLines ==
    {"", "# local settings", "no pair on this line",
     "API_PHOTOS_ENDPOINT=http://localhost:3000/photos",
     "REDIRECT_URI='http://localhost:8080'",
     "REDIRECT_URI="}

\* line.match(/^\s*([\w.-]+)\s*=\s*(.*)?\s*$/): the key and the raw value,
\* or nothing when the line is not a pair
match(line) ==
    CASE line = "API_PHOTOS_ENDPOINT=http://localhost:3000/photos" ->
            << "API_PHOTOS_ENDPOINT", "http://localhost:3000/photos" >>
      [] line = "REDIRECT_URI='http://localhost:8080'" ->
            << "REDIRECT_URI", "'http://localhost:8080'" >>
      [] line = "REDIRECT_URI=" -> << "REDIRECT_URI", "" >>
      [] OTHER -> << >>

\* the value without the pair of quotes around it
unquote(value) ==
    IF value = "'http://localhost:8080'" THEN "http://localhost:8080" ELSE value

\* one round of parseEnv's loop
parseLine(env, line) ==
    IF line = "" \/ line = "# local settings" THEN env
    ELSE IF match(line) = << >> THEN env
    ELSE IF match(line)[1] \in ConfigKeys
         THEN [env EXCEPT ![match(line)[1]] = unquote(match(line)[2])]
         ELSE env

\* parseEnv(content), content being split at the line ends: a later line of a
\* key replaces an earlier one
RECURSIVE parseLines(_, _)
parseLines(env, lines) ==
    IF lines = << >> THEN env
    ELSE parseLines(parseLine(env, Head(lines)), Tail(lines))

parseEnv(lines) == parseLines(EmptyEnv, lines)

\* the texts of one to MaxLines lines
RECURSIVE Contents(_)
Contents(n) ==
    IF n = 0 THEN {}
    ELSE {<< l >> : l \in EnvLines}
            \cup {Append(c, l) : c \in Contents(n - 1), l \in EnvLines}

\* what the server answers to fetch('.env')
NotServed == [kind |-> "notOk", lines |-> << "" >>]
EnvResponses ==
    {[kind |-> "network", lines |-> << "" >>], NotServed}
        \cup [kind : {"ok"}, lines : Contents(MaxLines)]

\* getEnv(key, defaultValue); window._env exists once env-loader.js has run
getEnv(c, key) ==
    IF c.node /\ Truthy(c.process[key]) THEN c.process[key]
    ELSE IF c.scripts >= 1 /\ Truthy(c.env[key]) THEN c.env[key]
    ELSE defaultValue(key)

\* js/env-loader.js runs: window._env is made and the file is requested
envLoaderScript(c) ==
    [c EXCEPT !.env = EmptyEnv, !.fetch = "pending", !.scripts = 1]

\* the request of env-loader.js ends: its then and catch callbacks
envSettle(c) ==
    LET content == IF c.served.kind = "ok" THEN c.served.lines ELSE << "" >>
    IN  [c EXCEPT !.fetch = "settled",
                  !.env = IF c.served.kind # "network" /\ content # << "" >>
                          THEN parseEnv(content) ELSE @]

\* js/config.js runs: CONFIG is built and published as window.AppConfig
configScript(c) ==
    [c EXCEPT !.AppConfig = [k \in ConfigKeys |-> getEnv(c, k)], !.scripts = 2]

\* the page before its scripts run: `node` tells whether `process` is defined,
\* `scripts` how many of env-loader.js and config.js have run (window._env
\* exists from the first on, window.AppConfig from the second on)
ConfigStart(node, process, served) ==
    [node |-> node, process |-> process, served |-> served, scripts |-> 0,
     fetch |-> "idle", env |-> EmptyEnv, AppConfig |-> EmptyEnv]

ConfigStarts ==
    {ConfigStart(FALSE, EmptyEnv, r) : r \in EnvResponses}
        \cup {ConfigStart(TRUE, p, r) : p \in ProcessEnvs, r \in EnvResponses}

\* the deployed page, its scripts run: no build environment, no .env file
Deployed ==
    configScript(envSettle(envLoaderScript(ConfigStart(FALSE, EmptyEnv, NotServed))))

\* the start of a page load: js/config.js, js/auth.js and js/app.js have run
\* (part_001 485-491, js/app.js 12-19); nothing is kept but the storage and the URL
LoadPage ==
    /\ authStatus' = EmptySession
    /\ timers' = NoTimers
    /\ listening' = FALSE
    /\ app' = AppData(EmptySession)
    /\ inflight' = 0
    /\ xhr' = NoXhr
    /\ monitor' = NoMonitor
    /\ modal' = NoModal
    /\ emitted' = << >>

InitPage ==
    /\ doc = "loading"
    /\ location = "app"
    /\ urlCode \in {NoCode} \cup Codes
    /\ localStorage \in InitialStorage
    /\ authStatus = EmptySession
    /\ timers = NoTimers
    /\ listening = FALSE
    /\ app = AppData(EmptySession)
    /\ inflight = 0
    /\ xhr = NoXhr
    /\ monitor = NoMonitor
    /\ modal = NoModal
    /\ loads = 1
    /\ exchanges = 0
    /\ emitted = << >>
    /\ lastOp = [op |-> "start", was |-> FALSE, status |-> 0, loop |-> NoLoop,
                 outcome |-> NoOutcome]

\* a page of the deployed site
Init == InitPage /\ config = Deployed

\* the user leaves the page (closes the tab, or starts a reload)
ClosePage ==
    /\ Open
    /\ doc' = "closed"
    /\ LoadPage
    /\ lastOp' = Op("ClosePage")
    /\ UNCHANGED config
    /\ UNCHANGED << location, urlCode, localStorage, exchanges, loads >>

\* the page is loaded again: with the URL it had, or, coming back from the
\* identity provider, with the code the provider appended
OpenPage(code) ==
    /\ doc = "closed" /\ loads < MaxLoads
    /\ loads' = loads + 1
    /\ code = urlCode \/ (location # "app" /\ code \in Codes)
    /\ doc' = "loading"
    /\ location' = "app"
    /\ urlCode' = code
    /\ exchanges' = IF code = urlCode THEN exchanges ELSE 0
    /\ LoadPage
    /\ lastOp' = Op("OpenPage")
    /\ UNCHANGED config
    /\ UNCHANGED localStorage

\* Alpine initialises the component: init() (js/app.js 120-172)
init ==
    /\ Open /\ ~listening
    /\ listening' = TRUE
    /\ LET w == [World EXCEPT !.app = AppData(authStatus), !.listening = TRUE]
       IN  Commit(IF w.app.isAuthenticated THEN fetchPhotosCall(w) ELSE w)
    /\ lastOp' = Op("init")
    /\ UNCHANGED config
    /\ UNCHANGED << doc, location, timers, xhr, monitor, loads, modal >>

\* the DOMContentLoaded handler of auth.js (part_001 692-717)
DOMContentLoaded ==
    /\ doc = "loading"
    /\ doc' = "interactive"
    /\ timers' = [timers EXCEPT !.startup = StartupDelay,
                                !.watchdog = WatchdogInterval]
    /\ emitted' = << >>
    /\ lastOp' = Op("DOMContentLoaded")
    /\ UNCHANGED config
    /\ UNCHANGED << location, urlCode, authStatus, localStorage, listening, app,
                    inflight, xhr, monitor, exchanges, loads, modal >>

\* the load event: the view's listener, if init() registered it in time
\* (js/app.js 124-140)
WindowLoad ==
    /\ doc = "interactive"
    /\ doc' = "complete"
    /\ IF listening /\ Truthy(urlCode)
       THEN /\ authStatus' = [authStatus EXCEPT !.loading = TRUE]
            /\ timers' = [timers EXCEPT !.load = LoadDelay]
       ELSE UNCHANGED << authStatus, timers >>
    /\ emitted' = << >>
    /\ lastOp' = Op("load")
    /\ UNCHANGED config
    /\ UNCHANGED << location, urlCode, localStorage, listening, app, inflight, xhr,
                    monitor, exchanges, loads, modal >>

\* the timer of the DOMContentLoaded handler (part_001 699-705): the auth check,
\* then one more event
StartupCheck ==
    /\ Open /\ timers.startup = 0
    /\ timers' = [timers EXCEPT !.startup = Unarmed]
    /\ Commit(dispatchEvent(checkAuthFromHash(World), "DOMContentLoaded"))
    /\ lastOp' = Op(IF Truthy(urlCode) THEN "startup:code" ELSE "startup:restore")
    /\ UNCHANGED config
    /\ UNCHANGED << doc, location, listening, xhr, monitor, loads, modal >>

\* the timer of the view's load listener (js/app.js 135-138)
LoadCheck ==
    /\ Open /\ timers.load = 0
    /\ timers' = [timers EXCEPT !.load = Unarmed]
    /\ Commit(checkAuthFromHash(World))
    /\ lastOp' = Op(IF Truthy(urlCode) THEN "load:code" ELSE "load:restore")
    /\ UNCHANGED config
    /\ UNCHANGED << doc, location, listening, xhr, monitor, loads, modal >>

\* one tick of the expiry watchdog (part_001 708-716)
WatchdogTick ==
    /\ Open /\ timers.watchdog = 0
    /\ timers' = [timers EXCEPT !.watchdog = WatchdogInterval]
    /\ Commit(checkExpiry(World))
    /\ lastOp' = Op("watchdog")
    /\ UNCHANGED config
    /\ UNCHANGED << doc, location, listening, xhr, monitor, loads, modal >>

\* window.logoutUser() (part_001 659-661)
logoutUser ==
    /\ Open
    /\ Commit(clearAuthData(World))
    /\ lastOp' = Op("logoutUser")
    /\ UNCHANGED config
    /\ UNCHANGED << doc, location, timers, listening, xhr, monitor, loads, modal >>

\* window.redirectToLogin() / window.redirectToRegister() (part_001 666-689); of
\* several pending navigations the first one set is the first to run
redirectTo(target) ==
    /\ Open
    /\ Commit(beginRedirect(World, target))
    /\ timers' = IF timers.redirect = Unarmed
                 THEN [timers EXCEPT !.redirect = RedirectDelay, !.redirectTo = target]
                 ELSE timers
    /\ lastOp' = Op(target)
    /\ UNCHANGED config
    /\ UNCHANGED << doc, location, listening, xhr, monitor, loads, modal >>

redirectToLogin == redirectTo("login")

redirectToRegister == redirectTo("register")

\* setAuthenticatedUser(tokenData) (part_001 586-638) applied to one token data
SetAuthenticatedUser(tokenData) ==
    /\ Open
    /\ Commit(setAuthenticatedUser(World, tokenData))
    /\ lastOp' = [Op("setAuthenticatedUser") EXCEPT !.outcome = tokenData]
    /\ UNCHANGED config
    /\ UNCHANGED << doc, location, timers, listening, xhr, monitor, loads, modal >>

\* the redirect's timer: window.location.href = ... unloads the page
Navigate ==
    /\ Open /\ timers.redirect = 0
    /\ location' = timers.redirectTo
    /\ doc' = "closed"
    /\ LoadPage
    /\ lastOp' = Op("navigate")
    /\ UNCHANGED config
    /\ UNCHANGED << urlCode, localStorage, exchanges, loads >>

\* d ms pass
Advance(d) ==
    /\ ~Due
    /\ d \in Delays
    /\ timers' = [timers EXCEPT !.startup = Elapse(@, d), !.load = Elapse(@, d),
                                !.redirect = Elapse(@, d), !.watchdog = NextTick(@, d)]
    /\ monitor' =
          [loops |-> [i \in 1..Len(monitor.loops) |->
                        IF monitor.loops[i].polling
                        THEN [monitor.loops[i] EXCEPT !.poll = @ - d]
                        ELSE monitor.loops[i]],
           timeouts |-> {[t EXCEPT !.at = @ - d] : t \in monitor.timeouts}]
    /\ authStatus' = [authStatus EXCEPT !.tokenExpiry = Shift(@, d)]
    /\ localStorage' = [localStorage EXCEPT !.obj.tokenExpiry = Shift(@, d)]
    /\ modal' = [modal EXCEPT !.closing = [i \in 1..Len(@) |-> @[i] - d]]
    /\ emitted' = << >>
    /\ lastOp' = Op("advance")
    /\ UNCHANGED config
    /\ UNCHANGED << doc, location, urlCode, listening, app, inflight, xhr, exchanges,
                    loads >>

----------------------------------------------------------------------------
(* Gallery data access: fetchPhotos (js/app.js 180-240) *)

\* an absent attribute of a listing item
Absent == "<absent>"

\* listing items: one with every attribute, one without the Metadata map
FullItem ==
    [ImageMetadataPK |-> "p1", ThumbnailURL |-> "t1", OriginalImageURL |-> "o1",
     Metadata |-> TRUE, Format |-> "JPEG", Mode |-> "RGB",
     Size |-> << "800", "600" >>]
BareItem ==
    [ImageMetadataPK |-> "p2", ThumbnailURL |-> "t2", OriginalImageURL |-> "o2",
     Metadata |-> FALSE, Format |-> Absent, Mode |-> Absent, Size |-> << >>]

\* the Items sequences the listing endpoint may answer with
Listings == { << >>, << FullItem >>, << FullItem, BareItem >> }

\* item.X ? item.X.S : ''
AttrS(v) == IF v = Absent THEN "" ELSE v

\* parseInt(n, 10) of the N texts the listings carry: the leading digits
parseInt(n) ==
    CASE n = "800" -> 800
      [] n = "600" -> 600
      [] n = "1024px" -> 1024

\* a variant: mode and size are read only from an item that has a format
PhotoOf_needsFormat(item) ==
    LET hasFormat == item.Metadata /\ Truthy(item.Format) /\ item.Format # Absent
        hasSize == hasFormat /\ Len(item.Size) >= 2
    IN  [id |-> AttrS(item.ImageMetadataPK),
         thumbnailUrl |-> AttrS(item.ThumbnailURL),
         url |-> AttrS(item.OriginalImageURL),
         metadata |->
            [format |-> IF hasFormat THEN item.Format ELSE Absent,
             mode |-> IF hasFormat /\ Truthy(item.Mode) /\ item.Mode # Absent
                      THEN item.Mode ELSE Absent,
             size |-> IF hasSize
                      THEN << parseInt(item.Size[1]), parseInt(item.Size[2]) >>
                      ELSE << >>]]

\* the photo made from one item (js/app.js 199-226); an absent metadata field
\* is kept as Absent, and width and height come from the two-element Size
PhotoOf(item) ==
    LET hasSize == item.Metadata /\ Len(item.Size) >= 2
    IN  [id |-> AttrS(item.ImageMetadataPK),
         thumbnailUrl |-> AttrS(item.ThumbnailURL),
         url |-> AttrS(item.OriginalImageURL),
         metadata |->
            [format |-> IF item.Metadata /\ Truthy(item.Format) /\ item.Format # Absent
                        THEN item.Format ELSE Absent,
             mode |-> IF item.Metadata /\ Truthy(item.Mode) /\ item.Mode # Absent
                      THEN item.Mode ELSE Absent,
             size |-> IF hasSize
                      THEN << parseInt(item.Size[1]), parseInt(item.Size[2]) >>
                      ELSE << >>]]

\* data.Items.map(...)
PhotosOf(items) == [i \in 1..Len(items) |-> PhotoOf(items[i])]

\* the items of the listings where the item mapping is under study: with or
\* without the Metadata map and, within it, with or without Format, Mode and
\* Size (of no, one or two elements)
GalleryItems ==
    {BareItem} \cup
    [ImageMetadataPK : {"p1"}, ThumbnailURL : {"t1"}, OriginalImageURL : {"o1"},
     Metadata : {TRUE}, Format : {Absent, "JPEG"}, Mode : {Absent, "RGB"},
     Size : {<< >>, << "1024px" >>, << "800", "600" >>}]

\* the Items sequences of up to two of them
GalleryListings ==
    {<< >>} \cup {<< a >> : a \in GalleryItems}
        \cup {<< a, b >> : a \in GalleryItems, b \in GalleryItems}

\* how a listing request may end
Failures == {"network", "notOk", "badJson", "badShape"}
Outcomes ==
    [kind : Failures, items : {<< >>}] \cup [kind : {"ok"}, items : GalleryListings]

\* the two outcomes kept where the session store is under study
SessionOutcomes ==
    {[kind |-> "network", items |-> << >>], [kind |-> "ok", items |-> << FullItem >>]}

\* err.message of the three ways the try block throws
ErrMessage(kind) ==
    CASE kind = "network" -> "Failed to fetch"
      [] kind = "notOk" -> "Network response was not ok"
      [] OTHER -> "Unexpected token"

\* a variant: a response is written only to a photo set that is still empty
fetchPhotosSettle_firstWins(a, o) ==
    LET done ==
          CASE o.kind = "ok" ->
                 IF a.photos = << >> THEN [a EXCEPT !.photos = PhotosOf(o.items)]
                 ELSE a
            [] o.kind = "badShape" ->
                 [a EXCEPT !.error = << "Unexpected API response format" >>,
                           !.photos = << >>]
            [] OTHER ->
                 [a EXCEPT !.error = << "Failed to fetch photos: ", ErrMessage(o.kind) >>]
    IN  [done EXCEPT !.loading = FALSE]

\* fetchPhotos from the response on (js/app.js 188-239)
fetchPhotosSettle(a, o) ==
    LET done ==
          CASE o.kind = "ok" -> [a EXCEPT !.photos = PhotosOf(o.items)]
            [] o.kind = "badShape" ->
                 [a EXCEPT !.error = << "Unexpected API response format" >>,
                           !.photos = << >>]
            [] OTHER ->
                 [a EXCEPT !.error = << "Failed to fetch photos: ", ErrMessage(o.kind) >>]
    IN  [done EXCEPT !.loading = FALSE]

\* the user asks for the listing again (the retry button, part_000 243)
fetchPhotos ==
    /\ Open /\ listening
    /\ Commit(fetchPhotosCall(World))
    /\ lastOp' = Op("fetchPhotos")
    /\ UNCHANGED config
    /\ UNCHANGED << doc, location, timers, listening, xhr, monitor, loads, modal >>

\* a listing request issued by init, the listener or the retry button ends
FetchSettle(o) ==
    /\ Open /\ inflight > 0
    /\ inflight' = inflight - 1
    /\ app' = fetchPhotosSettle(app, o)
    /\ emitted' = << >>
    /\ lastOp' = [Op("fetchSettle") EXCEPT !.outcome = o]
    /\ UNCHANGED config
    /\ UNCHANGED << doc, location, urlCode, authStatus, localStorage, timers,
                    listening, xhr, monitor, exchanges, loads, modal >>

----------------------------------------------------------------------------
(* Upload: handleFileSelect, uploadFile, uploadToS3 (js/app.js 248-357) *)

\* the files the user may pick
Files == {"a.jpg", "b.png"}

\* the statuses the storage endpoint may answer with
Statuses == {200, 304, 500}

\* xhr.statusText of a status
statusText(status) ==
    CASE status = 200 -> "OK"
      [] status = 304 -> "Not Modified"
      [] OTHER -> "Internal Server Error"

\* Math.round(n / d) for n >= 0, d > 0
MathRound(n, d) == (2 * n + d) \div (2 * d)

\* handleFileSelect(event) with event.target.files[0] = f (js/app.js 248-255)
handleFileSelectCall(a, f) ==
    [a EXCEPT !.fileToUpload = f, !.uploadError = NoError, !.uploadSuccess = FALSE]

\* a variant: the Authorization header is set whatever the token is
uploadToS3_alwaysBearer(file, token, n) ==
    [active |-> TRUE, file |-> file, bearer |-> token, sent |-> n]

\* the request uploadToS3 builds and sends (js/app.js 319-331, 355), the
\* page's n-th
uploadToS3(file, token, n) ==
    [active |-> TRUE, file |-> file,
     bearer |-> IF Truthy(token) THEN token ELSE Undefined, sent |-> n]

\* a variant: the transfer starts without a selected file
uploadFileCall_noGuard(a, x, token) ==
    [app |-> [a EXCEPT !.uploading = TRUE, !.uploadProgress = 0,
                       !.uploadError = NoError, !.uploadSuccess = FALSE],
     xhr |-> uploadToS3(a.fileToUpload, token, x.sent + 1)]

\* uploadFile up to the transfer it awaits (js/app.js 261-276); getPresignedUrl
\* does no I/O, so the request leaves in the same task
uploadFileCall(a, x, token) ==
    IF ~Truthy(a.fileToUpload)
    THEN [app |-> [a EXCEPT !.uploadError = << "Please select a file to upload." >>],
          xhr |-> x]
    ELSE [app |-> [a EXCEPT !.uploading = TRUE, !.uploadProgress = 0,
                            !.uploadError = NoError, !.uploadSuccess = FALSE],
          xhr |-> uploadToS3(a.fileToUpload, token, x.sent + 1)]

\* xhr.upload.onprogress (js/app.js 333-337)
onprogress(a, lengthComputable, loaded, total) ==
    IF lengthComputable THEN [a EXCEPT !.uploadProgress = MathRound(loaded * 100, total)]
    ELSE a

\* startImageProcessingMonitor (js/app.js 396-410, 439): the flags, and a new
\* interval with its closure
startImageProcessingMonitor(a, m) ==
    [app |-> [a EXCEPT !.processingImage = TRUE, !.processingProgress = 0,
                       !.processingMessage =
                           "Processing image... This typically takes about 60 seconds"],
     monitor |-> [m EXCEPT !.loops =
                     Append(@, [polling |-> TRUE, initialPhotoCount |-> Len(a.photos),
                                elapsed |-> 0, poll |-> PollInterval, awaiting |-> 0])]]

\* 200 <= xhr.status < 300 (js/app.js 340)
Is2xx(status) == 200 <= status /\ status < 300

\* err.message of the rejected transfer (js/app.js 345, 351)
TransferFailure(transport, status) ==
    IF transport THEN << "A network error occurred during the upload." >>
    ELSE << "Upload failed with status: ", ToString(status), " - ", statusText(status) >>

\* a variant: a failed transfer clears the selected file too
uploadFileSettle_clearsFile(a, m, transport, status) ==
    IF ~transport /\ Is2xx(status)
    THEN LET started ==
               startImageProcessingMonitor(
                   [a EXCEPT !.uploadSuccess = TRUE, !.fileToUpload = NoFile], m)
         IN  [app |-> [started.app EXCEPT !.uploading = FALSE],
              monitor |-> started.monitor]
    ELSE [app |-> [a EXCEPT !.uploadError =
                               << "Upload failed: " >> \o TransferFailure(transport, status),
                            !.fileToUpload = NoFile,
                            !.uploading = FALSE],
          monitor |-> m]

\* a variant: a successful transfer keeps the selected file
uploadFileSettle_keepsFile(a, m, transport, status) ==
    IF ~transport /\ Is2xx(status)
    THEN LET started ==
               startImageProcessingMonitor([a EXCEPT !.uploadSuccess = TRUE], m)
         IN  [app |-> [started.app EXCEPT !.uploading = FALSE],
              monitor |-> started.monitor]
    ELSE [app |-> [a EXCEPT !.uploadError =
                               << "Upload failed: " >> \o TransferFailure(transport, status),
                            !.uploading = FALSE],
          monitor |-> m]

\* uploadFile from the end of the transfer on (js/app.js 276-288): onload with
\* a status, or onerror (transport)
uploadFileSettle(a, m, transport, status) ==
    IF ~transport /\ Is2xx(status)
    THEN LET started ==
               startImageProcessingMonitor(
                   [a EXCEPT !.uploadSuccess = TRUE, !.fileToUpload = NoFile], m)
         IN  [app |-> [started.app EXCEPT !.uploading = FALSE],
              monitor |-> started.monitor]
    ELSE [app |-> [a EXCEPT !.uploadError =
                               << "Upload failed: " >> \o TransferFailure(transport, status),
                            !.uploading = FALSE],
          monitor |-> m]

\* a variant: the progress of a poll tick is not capped
pollCall_uncapped(a, l) ==
    LET elapsed == l.elapsed + PollStep
    IN  [app |-> [a EXCEPT !.processingProgress =
                              MathRound(elapsed * 100, TotalExpectedTime),
                           !.loading = TRUE, !.error = NoError],
         loop |-> [l EXCEPT !.elapsed = elapsed, !.poll = PollInterval,
                            !.awaiting = @ + 1]]

\* the poll callback up to its await (js/app.js 410-417)
pollCall(a, l) ==
    LET elapsed == l.elapsed + PollStep
    IN  [app |-> [a EXCEPT !.processingProgress =
                              IF MathRound(elapsed * 100, TotalExpectedTime) < ProgressCap
                              THEN MathRound(elapsed * 100, TotalExpectedTime)
                              ELSE ProgressCap,
                           !.loading = TRUE, !.error = NoError],
         loop |-> [l EXCEPT !.elapsed = elapsed, !.poll = PollInterval,
                            !.awaiting = @ + 1]]

\* a variant: only the time budget ends the monitoring
pollDone_budgetOnly(a, l) == l.elapsed >= TotalExpectedTime + ExtraTime

\* the poll callback's terminating condition (js/app.js 420)
pollDone(a, l) ==
    Len(a.photos) > l.initialPhotoCount \/ l.elapsed >= TotalExpectedTime + ExtraTime

\* a variant: a listing request that fails ends the monitoring
pollSettle_failureEnds(a, l, ts, o) ==
    LET fetched == fetchPhotosSettle(a, o)
        waiting == [l EXCEPT !.awaiting = @ - 1]
    IN  IF pollDone(fetched, l) \/ o.kind # "ok"
        THEN [app |-> [fetched EXCEPT !.processingProgress = 100,
                                      !.processingMessage = "Image processing complete!"],
              loop |-> [waiting EXCEPT !.polling = FALSE],
              timeouts |-> ts \cup {[kind |-> "dismiss", at |-> DismissDelay]}]
        ELSE [app |-> fetched, loop |-> waiting, timeouts |-> ts]

\* the poll callback from the end of its fetchPhotos on (js/app.js 417-438)
pollSettle(a, l, ts, o) ==
    LET fetched == fetchPhotosSettle(a, o)
        waiting == [l EXCEPT !.awaiting = @ - 1]
    IN  IF pollDone(fetched, l)
        THEN [app |-> [fetched EXCEPT !.processingProgress = 100,
                                      !.processingMessage = "Image processing complete!"],
              loop |-> [waiting EXCEPT !.polling = FALSE],
              timeouts |-> ts \cup {[kind |-> "dismiss", at |-> DismissDelay]}]
        ELSE [app |-> fetched, loop |-> waiting, timeouts |-> ts]

\* the loops whose interval runs or whose callbacks still await a response
RECURSIVE LiveLoops(_)
LiveLoops(ls) ==
    IF ls = << >> THEN << >>
    ELSE IF Head(ls).polling \/ Head(ls).awaiting > 0
         THEN << Head(ls) >> \o LiveLoops(Tail(ls))
         ELSE LiveLoops(Tail(ls))

\* the listing requests awaited by poll callbacks
RECURSIVE Awaited(_)
Awaited(ls) == IF ls = << >> THEN 0 ELSE Head(ls).awaiting + Awaited(Tail(ls))

\* how the listing request of a poll may end: it fails in one of the ways
\* fetchPhotos knows, or it lists no, one or two photos
PollOutcomes ==
    [kind : Failures, items : {<< >>}] \cup [kind : {"ok"}, items : Listings]

\* the user picks a file, or cancels the dialog
handleFileSelect(f) ==
    /\ Open /\ listening
    /\ app' = handleFileSelectCall(app, f)
    /\ emitted' = << >>
    /\ lastOp' = Op("handleFileSelect")
    /\ UNCHANGED config
    /\ UNCHANGED << doc, location, urlCode, authStatus, localStorage, timers,
                    listening, inflight, xhr, monitor, loads, exchanges,
                    modal >>

\* uploadFile() is called.  With a file selected the call comes from the
\* upload button, which is disabled during a transfer (part_000 151)
uploadFile ==
    /\ Open /\ listening
    /\ Truthy(app.fileToUpload) =>
           ~app.uploading /\ xhr.sent < MaxUploads
    /\ LET u == uploadFileCall(app, xhr, authStatus.token)
       IN  app' = u.app /\ xhr' = u.xhr
    /\ emitted' = << >>
    /\ lastOp' = Op("uploadFile")
    /\ UNCHANGED config
    /\ UNCHANGED << doc, location, urlCode, authStatus, localStorage, timers,
                    listening, inflight, monitor, loads, exchanges, modal >>

\* a progress event of the transfer
TransferProgress(lengthComputable, loaded) ==
    /\ Open /\ xhr.active
    /\ app' = onprogress(app, lengthComputable, loaded, MaxChunks)
    /\ emitted' = << >>
    /\ lastOp' = Op("xhr.upload.onprogress")
    /\ UNCHANGED config
    /\ UNCHANGED << doc, location, urlCode, authStatus, localStorage, timers,
                    listening, inflight, xhr, monitor, loads, exchanges,
                    modal >>

\* xhr.onload with a status: the transfer is over and its request object is
\* dropped
TransferLoad(status) ==
    /\ Open /\ xhr.active
    /\ xhr' = [NoXhr EXCEPT !.sent = xhr.sent]
    /\ LET u == uploadFileSettle(app, monitor, FALSE, status)
       IN  app' = u.app /\ monitor' = u.monitor
    /\ emitted' = << >>
    /\ lastOp' = [Op("xhr.onload") EXCEPT !.status = status]
    /\ UNCHANGED config
    /\ UNCHANGED << doc, location, urlCode, authStatus, localStorage, timers,
                    listening, inflight, loads, exchanges, modal >>

\* xhr.onerror: the transfer failed in transport, the status stays 0
TransferError ==
    /\ Open /\ xhr.active
    /\ xhr' = [NoXhr EXCEPT !.sent = xhr.sent]
    /\ LET u == uploadFileSettle(app, monitor, TRUE, 0)
       IN  app' = u.app /\ monitor' = u.monitor
    /\ emitted' = << >>
    /\ lastOp' = Op("xhr.onerror")
    /\ UNCHANGED config
    /\ UNCHANGED << doc, location, urlCode, authStatus, localStorage, timers,
                    listening, inflight, loads, exchanges, modal >>

\* a tick of the poll interval of loop i
PollTick(i) ==
    /\ Open /\ i \in 1..Len(monitor.loops)
    /\ monitor.loops[i].polling /\ monitor.loops[i].poll = 0
    /\ Awaited(monitor.loops) < MaxAwaiting
    /\ LET p == pollCall(app, monitor.loops[i])
       IN  app' = p.app /\ monitor' = [monitor EXCEPT !.loops[i] = p.loop]
    /\ emitted' = << >>
    /\ lastOp' = Op("poll")
    /\ UNCHANGED config
    /\ UNCHANGED << doc, location, urlCode, authStatus, localStorage, timers,
                    listening, inflight, xhr, loads, exchanges, modal >>

\* a listing request of a poll of loop i ends; a loop with no interval and no
\* callback awaiting is forgotten
PollSettle(i, o) ==
    /\ Open /\ i \in 1..Len(monitor.loops)
    /\ monitor.loops[i].awaiting > 0
    /\ LET p == pollSettle(app, monitor.loops[i], monitor.timeouts, o)
       IN  /\ app' = p.app
           /\ monitor' = [loops |-> LiveLoops([monitor.loops EXCEPT ![i] = p.loop]),
                          timeouts |-> p.timeouts]
    /\ emitted' = << >>
    /\ lastOp' = [Op("pollSettle") EXCEPT !.loop = monitor.loops[i], !.outcome = o]
    /\ UNCHANGED config
    /\ UNCHANGED << doc, location, urlCode, authStatus, localStorage, timers,
                    listening, inflight, xhr, loads, exchanges, modal >>

\* a variant: the dismissal sets no further timeout
DismissTimeout_noSuccessTimer ==
    /\ Open /\ [kind |-> "dismiss", at |-> 0] \in monitor.timeouts
    /\ app' = [app EXCEPT !.processingImage = FALSE]
    /\ monitor' = [monitor EXCEPT !.timeouts = @ \ {[kind |-> "dismiss", at |-> 0]}]
    /\ emitted' = << >>
    /\ lastOp' = Op("dismiss")
    /\ UNCHANGED config
    /\ UNCHANGED << doc, location, urlCode, authStatus, localStorage, timers,
                    listening, inflight, xhr, loads, exchanges, modal >>

\* the timeout set on completion (js/app.js 429-437)
DismissTimeout ==
    /\ Open /\ [kind |-> "dismiss", at |-> 0] \in monitor.timeouts
    /\ app' = [app EXCEPT !.processingImage = FALSE]
    /\ monitor' = [monitor EXCEPT !.timeouts =
                      (@ \ {[kind |-> "dismiss", at |-> 0]})
                          \cup {[kind |-> "success", at |-> SuccessDelay]}]
    /\ emitted' = << >>
    /\ lastOp' = Op("dismiss")
    /\ UNCHANGED config
    /\ UNCHANGED << doc, location, urlCode, authStatus, localStorage, timers,
                    listening, inflight, xhr, loads, exchanges, modal >>

\* the timeout set by the former (js/app.js 433-436)
SuccessTimeout ==
    /\ Open /\ [kind |-> "success", at |-> 0] \in monitor.timeouts
    /\ app' = [app EXCEPT !.uploadSuccess = FALSE]
    /\ monitor' = [monitor EXCEPT !.timeouts = @ \ {[kind |-> "success", at |-> 0]}]
    /\ emitted' = << >>
    /\ lastOp' = Op("success")
    /\ UNCHANGED config
    /\ UNCHANGED << doc, location, urlCode, authStatus, localStorage, timers,
                    listening, inflight, xhr, loads, exchanges, modal >>

----------------------------------------------------------------------------
(* The photo modal: openPhotoModal, closePhotoModal (js/app.js 365-390) *)

\* openPhotoModal(photo) (js/app.js 365-371)
openPhotoModalCall(a, photo) ==
    [a EXCEPT !.selectedPhoto = << photo >>, !.modalLoading = TRUE, !.showModal = TRUE]

\* a variant: the callbacks of the image leave modalLoading alone
imageSettle_keepsLoading(a) == a

\* img.onload / img.onerror (js/app.js 372-378)
imageSettle(a) == [a EXCEPT !.modalLoading = FALSE]

\* a variant: closePhotoModal clears the photo at once
closePhotoModalCall_clearsNow(a) ==
    [a EXCEPT !.showModal = FALSE, !.selectedPhoto = NoPhoto, !.modalLoading = FALSE]

\* closePhotoModal() up to its setTimeout (js/app.js 385)
closePhotoModalCall(a) == [a EXCEPT !.showModal = FALSE]

\* a variant: the deferred clear shows the modal again
closeTimeoutCall_reopens(a) ==
    [a EXCEPT !.selectedPhoto = NoPhoto, !.modalLoading = FALSE,
              !.showModal = ~a.showModal]

\* the timeout of closePhotoModal (js/app.js 386-389)
closeTimeoutCall(a) == [a EXCEPT !.selectedPhoto = NoPhoto, !.modalLoading = FALSE]

\* the user clicks the k-th photo of the gallery
openPhotoModal(k) ==
    /\ Open /\ listening
    /\ k \in 1..Len(app.photos)
    /\ modal.images < MaxPending
    /\ app' = openPhotoModalCall(app, app.photos[k])
    /\ modal' = [modal EXCEPT !.images = @ + 1, !.latest = TRUE]
    /\ emitted' = << >>
    /\ lastOp' = Op("openPhotoModal")
    /\ UNCHANGED config
    /\ UNCHANGED << doc, location, urlCode, authStatus, localStorage, timers,
                    listening, inflight, xhr, monitor, loads, exchanges >>

\* the full-size image of an opened photo loads, or fails to load: the image
\* of the photo opened last, or the image of a photo opened before it
ImageSettle(latest) ==
    /\ Open /\ modal.images > 0
    /\ IF latest THEN modal.latest ELSE modal.images > (IF modal.latest THEN 1 ELSE 0)
    /\ app' = imageSettle(app)
    /\ modal' = [modal EXCEPT !.images = @ - 1,
                              !.latest = IF latest THEN FALSE ELSE @]
    /\ emitted' = << >>
    /\ lastOp' = Op("imageSettle")
    /\ UNCHANGED config
    /\ UNCHANGED << doc, location, urlCode, authStatus, localStorage, timers,
                    listening, inflight, xhr, monitor, loads, exchanges >>

\* the user closes the modal (button, backdrop or Escape)
closePhotoModal ==
    /\ Open /\ listening
    /\ Len(modal.closing) < MaxPending
    /\ app' = closePhotoModalCall(app)
    /\ modal' = [modal EXCEPT !.closing = Append(@, CloseDelay)]
    /\ emitted' = << >>
    /\ lastOp' = Op("closePhotoModal")
    /\ UNCHANGED config
    /\ UNCHANGED << doc, location, urlCode, authStatus, localStorage, timers,
                    listening, inflight, xhr, monitor, loads, exchanges >>

\* the timeout of the earliest pending closePhotoModal
CloseTimeout ==
    /\ Open /\ modal.closing # << >> /\ Head(modal.closing) = 0
    /\ app' = closeTimeoutCall(app)
    /\ modal' = [modal EXCEPT !.closing = Tail(@)]
    /\ emitted' = << >>
    /\ lastOp' = Op("closeTimeout")
    /\ UNCHANGED config
    /\ UNCHANGED << doc, location, urlCode, authStatus, localStorage, timers,
                    listening, inflight, xhr, monitor, loads, exchanges >>

----------------------------------------------------------------------------
(* The scripts that make the configuration *)

\* <script src="js/env-loader.js">
EnvLoaderScript ==
    /\ doc = "loading" /\ config.scripts = 0
    /\ config' = envLoaderScript(config)
    /\ emitted' = << >>
    /\ lastOp' = Op("env-loader.js")
    /\ UNCHANGED << doc, location, urlCode, authStatus, localStorage, timers,
                    listening, app, inflight, xhr, monitor, modal, loads,
                    exchanges >>

\* the answer to fetch('.env') arrives, whenever the network delivers it
EnvSettle ==
    /\ Open /\ config.fetch = "pending"
    /\ config' = envSettle(config)
    /\ emitted' = << >>
    /\ lastOp' = Op("envSettle")
    /\ UNCHANGED << doc, location, urlCode, authStatus, localStorage, timers,
                    listening, app, inflight, xhr, monitor, modal, loads,
                    exchanges >>

\* <script src="js/config.js">, the script after env-loader.js
ConfigScript ==
    /\ doc = "loading" /\ config.scripts = 1
    /\ config' = configScript(config)
    /\ emitted' = << >>
    /\ lastOp' = Op("config.js")
    /\ UNCHANGED << doc, location, urlCode, authStatus, localStorage, timers,
                    listening, app, inflight, xhr, monitor, modal, loads,
                    exchanges >>

----------------------------------------------------------------------------
(* Specifications *)

\* the session store, the page life cycle and the view's listener
NextAuth ==
    \/ ClosePage
    \/ \E c \in {NoCode} \cup Codes : OpenPage(c)
    \/ init
    \/ DOMContentLoaded
    \/ WindowLoad
    \/ StartupCheck
    \/ LoadCheck
    \/ WatchdogTick
    \/ logoutUser
    \/ redirectToLogin
    \/ redirectToRegister
    \/ Navigate
    \/ \E d \in Delays : Advance(d)
    \/ fetchPhotos
    \/ \E o \in SessionOutcomes : FetchSettle(o)

SpecAuth == Init /\ [][NextAuth]_vars

\* the upload pipeline and the monitoring that follows it, on a page whose
\* session is as the scripts leave it; here one file is transferred, and
\* every listing request of a poll ends before the next tick
NextUpload ==
    \/ init
    \/ \E f \in Files \cup {Undefined} : handleFileSelect(f)
    \/ uploadFile /\ (Truthy(app.fileToUpload) => xhr.sent = 0)
    \/ \E c \in BOOLEAN, l \in 0..MaxChunks : TransferProgress(c, l)
    \/ \E s \in Statuses : TransferLoad(s)
    \/ TransferError
    \/ \E i \in 1..MaxUploads : PollTick(i) /\ Awaited(monitor.loops) = 0
    \/ \E i \in 1..MaxUploads, o \in PollOutcomes : PollSettle(i, o)
    \/ DismissTimeout
    \/ SuccessTimeout
    \/ \E d \in Delays : Advance(d)

\* a first visit: no code in the URL, nothing persisted
InitUpload == Init /\ urlCode = NoCode /\ localStorage = NoItem

SpecUpload == InitUpload /\ [][NextUpload]_vars

\* the same, with the scheduling of the browser: time passes, a timer that is
\* due fires, and every listing request of a poll ends
SpecUploadLive ==
    /\ SpecUpload
    /\ WF_vars(\E d \in Delays : Advance(d))
    /\ WF_vars(\E i \in 1..MaxUploads : PollTick(i) /\ Awaited(monitor.loops) = 0)
    /\ WF_vars(\E i \in 1..MaxUploads, o \in PollOutcomes : PollSettle(i, o))
    /\ WF_vars(DismissTimeout)
    /\ WF_vars(SuccessTimeout)

\* the gallery's data access: the listing is asked for again and again, and
\* the requests end in any order and in every way
NextGallery ==
    \/ init
    \/ fetchPhotos
    \/ \E o \in Outcomes : FetchSettle(o)

SpecGallery == InitUpload /\ [][NextGallery]_vars

\* the photo modal over a gallery that is loaded again and again; the modal's
\* close controls (part_000 294, 316) can be clicked while the modal is on
\* screen: shown, or still in the transition of a close
NextModal ==
    \/ init
    \/ fetchPhotos
    \/ \E o \in PollOutcomes : FetchSettle(o)
    \/ \E k \in 1..Len(app.photos) : openPhotoModal(k)
    \/ \E latest \in BOOLEAN : ImageSettle(latest)
    \/ closePhotoModal /\ (app.showModal \/ modal.closing # << >>)
    \/ CloseTimeout
    \/ \E d \in Delays : Advance(d)

SpecModal == InitUpload /\ [][NextModal]_vars

\* the session and the data operations together: the page is opened with a
\* code, the controls of the gallery are used while the view shows them
\* (part_000 101: x-show="isAuthenticated"), and the user may log out at any
\* time
NextGate ==
    \/ init
    \/ DOMContentLoaded
    \/ StartupCheck
    \/ WatchdogTick
    \/ logoutUser
    \/ fetchPhotos /\ app.isAuthenticated
    \/ \E o \in SessionOutcomes : FetchSettle(o)
    \/ \E f \in {"a.jpg"} : handleFileSelect(f) /\ app.isAuthenticated
    \/ uploadFile /\ app.isAuthenticated /\ xhr.sent = 0
    \/ \E s \in Statuses : TransferLoad(s)
    \/ \E i \in 1..MaxUploads : PollTick(i) /\ Awaited(monitor.loops) = 0
    \/ \E i \in 1..MaxUploads, o \in SessionOutcomes : PollSettle(i, o)
    \/ DismissTimeout
    \/ SuccessTimeout
    \/ \E d \in Delays : Advance(d)

\* the arrival from the identity provider on a first visit
InitGate == Init /\ urlCode \in Codes /\ localStorage = NoItem

SpecGate == InitGate /\ [][NextGate]_vars

\* transfers started with and without a session: the page is opened with or
\* without a code, the user may log out, and uploadFile is called whatever
\* the session is
NextTransfer ==
    \/ init
    \/ DOMContentLoaded
    \/ StartupCheck
    \/ logoutUser
    \/ \E o \in SessionOutcomes : FetchSettle(o)
    \/ \E f \in {"a.jpg"} : handleFileSelect(f)
    \/ uploadFile
    \/ \E s \in Statuses : TransferLoad(s)
    \/ TransferError
    \/ \E d \in Delays : Advance(d)

InitTransfer == Init /\ localStorage = NoItem

SpecTransfer == InitTransfer /\ [][NextTransfer]_vars

\* the monitoring in depth: a file is selected when none is and uploaded
\* once, every transfer succeeds, and a listing request of a poll may take
\* longer than the poll interval
NextMonitor ==
    \/ init
    \/ \E f \in {"a.jpg"} : handleFileSelect(f) /\ ~Truthy(app.fileToUpload)
    \/ uploadFile /\ Truthy(app.fileToUpload) /\ xhr.sent = 0
    \/ \E s \in {t \in Statuses : Is2xx(t)} : TransferLoad(s)
    \/ \E i \in 1..MaxUploads : PollTick(i)
    \/ \E i \in 1..MaxUploads, o \in PollOutcomes : PollSettle(i, o)
    \/ DismissTimeout
    \/ SuccessTimeout
    \/ \E d \in Delays : Advance(d)

SpecMonitor == InitUpload /\ [][NextMonitor]_vars

\* one upload after another: the upload button is enabled again as soon as a
\* transfer has ended and a file is selected (part_000 151), whether or not
\* the monitoring of the earlier upload has ended; every transfer succeeds and
\* every listing request of a poll ends before the next tick
NextReupload ==
    \/ init
    \/ \E f \in {"a.jpg"} : handleFileSelect(f) /\ ~Truthy(app.fileToUpload)
    \/ uploadFile /\ Truthy(app.fileToUpload)
    \/ \E s \in {t \in Statuses : Is2xx(t)} : TransferLoad(s)
    \/ \E i \in 1..MaxUploads : PollTick(i) /\ Awaited(monitor.loops) = 0
    \/ \E i \in 1..MaxUploads, o \in PollOutcomes : PollSettle(i, o)
    \/ DismissTimeout
    \/ SuccessTimeout
    \/ \E d \in Delays : Advance(d)

SpecReupload == InitUpload /\ [][NextReupload]_vars

\* the scripts that make the configuration, from the start of a page load,
\* under every build environment and every answer to the .env request
NextConfig ==
    \/ EnvLoaderScript
    \/ EnvSettle
    \/ ConfigScript

InitConfig ==
    /\ InitPage /\ urlCode = NoCode /\ localStorage = NoItem
    /\ config \in ConfigStarts

SpecConfig == InitConfig /\ [][NextConfig]_vars

----------------------------------------------------------------------------
\* setAuthenticatedUser over token data of every shape, with and without the
\* view listening
NextToken ==
    \/ init
    \/ \E tokenData \in TokenDatas : SetAuthenticatedUser(tokenData)
    \/ \E o \in SessionOutcomes : FetchSettle(o)

SpecToken == Init /\ [][NextToken]_vars

----------------------------------------------------------------------------

(* Properties of the session store *)

\* the steps that run checkAuthFromHash, by the branch taken
RestoreOps == {"startup:restore", "load:restore"}
ExchangeOps == {"startup:code", "load:code"}
CheckOps == RestoreOps \cup ExchangeOps

\* the events of the last step dispatched by `by`
EventsBy(by) == {i \in 1..Len(emitted) : emitted[i].by = by}

\* C1: an auth check without a code that finds a persisted session whose
\* tokenExpiry is strictly in the future ends authenticated, with the persisted
\* username and token.
C1_RestoreKeepsIdentity ==
    [][(/\ lastOp'.op \in RestoreOps
        /\ localStorage.kind = "json"
        /\ InFuture(localStorage.obj.tokenExpiry))
       => (/\ authStatus'.isAuthenticated
           /\ authStatus'.username = localStorage.obj.username
           /\ authStatus'.token = localStorage.obj.token)]_vars

\* C1 witness: the startup check has restored the session persisted by an
\* earlier visit
C1_Witness ==
    /\ lastOp.op = "startup:restore"
    /\ authStatus.isAuthenticated
    /\ authStatus.token = "id-c1"
    /\ authStatus.username = "Authenticated User"

\* a persisted text that holds no session to restore: it does not parse, or
\* its tokenExpiry is missing or not strictly in the future
Unrestorable(text) ==
    \/ text.kind \in {"empty", "garbage", "null"}
    \/ text.kind = "json" /\ ~InFuture(text.obj.tokenExpiry)

\* C2: a startup auth check without a code that finds a persisted text with a
\* missing or elapsed tokenExpiry, or a text that cannot be parsed, ends with
\* the empty session and with the persisted copy removed.
C2_UnrestorableIsCleared ==
    [][(lastOp'.op = "startup:restore" /\ Unrestorable(localStorage))
       => (authStatus' = EmptySession /\ localStorage' = NoItem)]_vars

\* C2, for every such text but the empty one: this much the code does
C2_NonEmptyUnrestorableIsCleared ==
    [][(/\ lastOp'.op = "startup:restore"
        /\ Unrestorable(localStorage)
        /\ localStorage.kind # "empty")
       => (authStatus' = EmptySession /\ localStorage' = NoItem)]_vars

\* C3: an authenticated session has a non-empty token, and its tokenExpiry was
\* in the future when the auth check (by exchange or by restore) set it.
C3_AuthenticatedHasToken ==
    authStatus.isAuthenticated
    => /\ Truthy(authStatus.token)
       /\ TruthyTime(authStatus.tokenExpiry)
       /\ lastOp.op \in CheckOps => InFuture(authStatus.tokenExpiry)

\* C3 witness: after the exchange, a later check has restored the session
C3_Witness ==
    /\ lastOp.op \in RestoreOps
    /\ exchanges = 1
    /\ authStatus.isAuthenticated
    /\ authStatus.token = "id-c2"

\* C4: every auth check first emits an event with loading = true and last
\* emits an event with loading = false.
C4_LoadingAnnouncedFirst ==
    lastOp.op \in CheckOps
    => /\ emitted # << >>
       /\ emitted[1].session.loading
       /\ ~emitted[Len(emitted)].session.loading

\* C5: a code in the URL is exchanged at most once, and the check that
\* exchanges it leaves the URL without it.
C5_CodeExchangedOnce ==
    /\ exchanges <= 1
    /\ lastOp.op \in ExchangeOps => urlCode = NoCode

\* C5 witness: a page load after the exchange has run its check, on the
\* no-code path
C5_Witness ==
    /\ exchanges = 1
    /\ loads = 2
    /\ lastOp.op = "startup:restore"

\* C6: the watchdog tick that finds the session authenticated and its
\* tokenExpiry reached clears the session, removes the persisted copy and emits
\* one event; and while a session is authenticated the watchdog is running, its
\* next tick at most one period away.
C6_WatchdogClearsExpired ==
    /\ [][(/\ lastOp'.op = "watchdog"
           /\ authStatus.isAuthenticated
           /\ NotInFuture(authStatus.tokenExpiry))
          => (/\ authStatus' = EmptySession
              /\ localStorage' = NoItem
              /\ Len(emitted') = 1)]_vars
    /\ [](authStatus.isAuthenticated
          => timers.watchdog \in 0..WatchdogInterval)

\* C6 witness: a watchdog tick found the session expired and cleared it
C6_Witness ==
    /\ lastOp.op = "watchdog" /\ lastOp.was
    /\ authStatus = EmptySession
    /\ localStorage = NoItem
    /\ Len(emitted) = 1

C8_OneEventAfterUpdate ==
    /\ \A i \in EventsBy("setAuthenticatedUser") :
          /\ emitted[i].session = authStatus
          /\ emitted[i].session.isAuthenticated
          /\ emitted[i].stored = JSONstringify(emitted[i].session)
    /\ (lastOp.op \in CheckOps /\ authStatus.isAuthenticated)
       => Cardinality(EventsBy("setAuthenticatedUser")) = 1
    /\ Cardinality(EventsBy("setAuthenticatedUser")) <= 1

\* C8 witness: the startup check exchanged a code: the event of
\* setAuthenticatedUser, the closing event of the check, the event of the timer
C8_Witness ==
    /\ lastOp.op = "startup:code"
    /\ Len(emitted) = 3
    /\ emitted[1].by = "setAuthenticatedUser"

----------------------------------------------------------------------------
(* Properties of the upload pipeline *)

\* C9: uploadFile called with no file selected sets uploadError to "Please
\* select a file to upload.", issues no request (neither a transfer nor a
\* listing request), starts no monitoring, and leaves uploading,
\* uploadProgress, uploadSuccess and fileToUpload as they were.
C9_NoFileUploadOnlyReports ==
    [][(lastOp'.op = "uploadFile" /\ ~Truthy(app.fileToUpload)) =>
          /\ app'.uploadError = << "Please select a file to upload." >>
          /\ xhr' = xhr /\ inflight' = inflight
          /\ monitor' = monitor
          /\ app'.uploading = app.uploading
          /\ app'.uploadProgress = app.uploadProgress
          /\ app'.uploadSuccess = app.uploadSuccess
          /\ app'.fileToUpload = app.fileToUpload]_vars

\* uploadFile has just been called with no file selected, during a transfer
\* started before the selection was cancelled
C9_Witness ==
    /\ lastOp.op = "uploadFile" /\ ~Truthy(app.fileToUpload)
    /\ app.uploadError = << "Please select a file to upload." >>
    /\ xhr.active /\ app.uploading

\* C10: when the transfer ends with a status outside 200..299 or with a
\* transport error, uploadError is a message naming the failure (with the
\* status code for a status), uploading and uploadSuccess are false, the
\* selected file is kept, no monitoring is started and no other transfer or
\* request is issued.
C10_FailedTransferKeepsFile ==
    [][(lastOp'.op \in {"xhr.onload", "xhr.onerror"} /\ ~Is2xx(lastOp'.status)) =>
          /\ app'.uploadError # NoError
          /\ Head(app'.uploadError) = "Upload failed: "
          /\ lastOp'.op = "xhr.onload" =>
                 \E k \in 1..Len(app'.uploadError) :
                     app'.uploadError[k] = ToString(lastOp'.status)
          /\ ~app'.uploading /\ ~app'.uploadSuccess
          /\ app'.fileToUpload = app.fileToUpload
          /\ monitor' = monitor
          /\ ~xhr'.active /\ inflight' = inflight
          /\ Awaited(monitor'.loops) = Awaited(monitor.loops)]_vars

\* a transfer of a selected file has just ended with status 500
C10_Witness ==
    /\ lastOp.op = "xhr.onload" /\ lastOp.status = 500
    /\ Truthy(app.fileToUpload)
    /\ app.uploadError # NoError /\ ~app.uploading

\* C11: a file f is selected and uploadFile is called.  If the transfer fails
\* and f is still the selection, fileToUpload is f afterwards; if it succeeds,
\* fileToUpload is empty, uploadSuccess is true, uploading is false and the
\* monitoring phase is entered (processingImage true, processingProgress 0,
\* one more poll interval).
C11_SelectThenUpload ==
    [][(xhr.active /\ lastOp'.op \in {"xhr.onload", "xhr.onerror"}) =>
          IF lastOp'.op = "xhr.onload" /\ Is2xx(lastOp'.status)
          THEN /\ app'.fileToUpload = NoFile
               /\ app'.uploadSuccess /\ ~app'.uploading
               /\ app'.processingImage /\ app'.processingProgress = 0
               /\ Len(monitor'.loops) = Len(monitor.loops) + 1
               /\ monitor'.loops[Len(monitor'.loops)].polling
          ELSE app.fileToUpload = xhr.file => app'.fileToUpload = xhr.file]_vars

\* the transfer of the selected file has just succeeded
C11_Witness ==
    /\ lastOp.op = "xhr.onload" /\ Is2xx(lastOp.status)
    /\ app.fileToUpload = NoFile /\ app.uploadSuccess /\ ~app.uploading
    /\ app.processingImage /\ app.processingProgress = 0
    /\ Len(monitor.loops) = 1

\* the step ends a transfer during which another file was selected
EndsTransferOfEarlierFile ==
    /\ lastOp'.op \in {"xhr.onload", "xhr.onerror"}
    /\ Truthy(app.fileToUpload) /\ app.fileToUpload # xhr.file

\* C35: a file selected while the transfer of an earlier file is in flight is
\* still the selected file after that transfer completes, by success or by
\* failure.
C35_LaterSelectionSurvives ==
    [][EndsTransferOfEarlierFile => app'.fileToUpload = app.fileToUpload]_vars

\* what does hold of C35: the later selection survives a transfer that fails
C35_LaterSelectionSurvivesFailure ==
    [][(/\ EndsTransferOfEarlierFile
        /\ (lastOp'.op = "xhr.onerror" \/ ~Is2xx(lastOp'.status)))
       => app'.fileToUpload = app.fileToUpload]_vars

\* C40: the transfer uploadFile starts carries an Authorization bearer header
\* exactly when the session's token is non-empty at that moment, and the
\* header then carries that token.
C40_BearerIsSessionToken ==
    [][(lastOp'.op = "uploadFile" /\ xhr'.active) =>
         /\ ~xhr.active
         /\ authStatus' = authStatus
         /\ (xhr'.bearer # Undefined) <=> Truthy(authStatus.token)
         /\ Truthy(authStatus.token) => xhr'.bearer = authStatus.token]_vars

\* after a transfer with the session's token and a logout, a second transfer
\* has started without the header
C40_Witness ==
    /\ lastOp.op = "uploadFile" /\ xhr.active /\ xhr.sent = 2
    /\ ~authStatus.isAuthenticated /\ authStatus.token = ""
    /\ xhr.bearer = Undefined
    /\ exchanges > 0

\* a transfer of a signed-in session is in flight with the session's token
C40_WithToken ==
    /\ lastOp.op = "uploadFile" /\ xhr.active
    /\ authStatus.isAuthenticated /\ xhr.bearer = authStatus.token
    /\ Truthy(xhr.bearer)

----------------------------------------------------------------------------
(* Properties of the monitoring *)

\* the number of poll intervals that are set
Polling(m) == Cardinality({i \in 1..Len(m.loops) : m.loops[i].polling})

\* C12: when the listing request of a poll ends and leaves more photos than
\* the loop counted when it began, the monitoring ends in that step, whatever
\* the elapsed time: the loop's interval (if still set) is cancelled,
\* processingProgress is 100, the completion message is shown and the
\* dismissal timeout is set.
C12_NewPhotoEndsMonitoring ==
    [][(lastOp'.op = "pollSettle"
          /\ Len(app'.photos) > lastOp'.loop.initialPhotoCount) =>
          /\ app'.processingProgress = 100
          /\ app'.processingMessage = "Image processing complete!"
          /\ Polling(monitor') =
                 Polling(monitor) - (IF lastOp'.loop.polling THEN 1 ELSE 0)
          /\ [kind |-> "dismiss", at |-> DismissDelay] \in monitor'.timeouts]_vars

\* the first poll of a loop (10 s of the 70 s elapsed) found a new photo and
\* ended the monitoring
C12_Witness ==
    /\ lastOp.op = "pollSettle"
    /\ lastOp.loop.polling /\ lastOp.loop.elapsed = PollStep
    /\ Len(app.photos) > lastOp.loop.initialPhotoCount
    /\ app.processingProgress = 100 /\ Polling(monitor) = 0

\* C13: a monitoring run whose photo count never exceeds the initial count
\* ends through the time budget at the latest on its 7th poll tick: no loop
\* ticks an 8th time (its elapsed time never exceeds 70 s).
C13_EndsBySeventhTick ==
    \A i \in 1..Len(monitor.loops) :
        monitor.loops[i].elapsed <= TotalExpectedTime + ExtraTime

\* what the code does for C13: the budget is tested only when a listing request
\* ends, and then it ends the monitoring
C13_BudgetEndsMonitoring ==
    [][(lastOp'.op = "pollSettle"
          /\ lastOp'.loop.elapsed >= TotalExpectedTime + ExtraTime) =>
          /\ app'.processingProgress = 100
          /\ Polling(monitor') =
                 Polling(monitor) - (IF lastOp'.loop.polling THEN 1 ELSE 0)]_vars

\* and a loop ticks an 8th time only while an earlier listing request of it is
\* still awaited
C13_SeventhTickWhenPromptlySettled ==
    \A i \in 1..Len(monitor.loops) :
        (monitor.loops[i].polling
           /\ monitor.loops[i].elapsed > TotalExpectedTime + ExtraTime)
            => monitor.loops[i].awaiting >= 2

----------------------------------------------------------------------------
(* Properties of the gallery's data access *)

\* C14: when a fetchPhotos call ends in a network failure, a non-OK response,
\* an unreadable body or a body without an Items sequence, then after the call
\* error is a non-empty message, the photo set is empty, loading is false and
\* the call has issued no further request.
C14_FailureEmptiesPhotos ==
    [][(lastOp'.op = "fetchSettle" /\ lastOp'.outcome.kind \in Failures) =>
          /\ app'.error # NoError
          /\ app'.photos = << >>
          /\ ~app'.loading
          /\ inflight' = inflight - 1]_vars

\* what the code does for C14: the message, the flag and no retry; the photo
\* set is emptied only for a body without an Items sequence
C14_FailureSetsError ==
    [][(lastOp'.op = "fetchSettle" /\ lastOp'.outcome.kind \in Failures) =>
          /\ app'.error # NoError
          /\ app'.photos = IF lastOp'.outcome.kind = "badShape" THEN << >>
                           ELSE app.photos
          /\ ~app'.loading
          /\ inflight' = inflight - 1]_vars

\* C15: when a fetchPhotos call completes successfully (an empty Items
\* sequence included), right after it the photo set is exactly the photos of
\* its response and error is null, also when other calls started or failed
\* while it was in flight.
C15_SuccessReplacesPhotos ==
    [][(lastOp'.op = "fetchSettle" /\ lastOp'.outcome.kind = "ok") =>
          /\ app'.photos = PhotosOf(lastOp'.outcome.items)
          /\ app'.error = NoError]_vars

\* what the code does for C15: the photo set is replaced, and error is left as
\* it was (null when the call began, a message if another call failed since)
C15_SuccessSetsPhotos ==
    [][(lastOp'.op = "fetchSettle" /\ lastOp'.outcome.kind = "ok") =>
          /\ app'.photos = PhotosOf(lastOp'.outcome.items)
          /\ app'.error = app.error
          /\ ~app'.loading]_vars

\* a fetchPhotos call has started (in the gallery's specification every step
\* after the first call starts or ends a call)
FetchStarted == lastOp.op \in {"fetchPhotos", "fetchSettle"}

\* C36: from the start of the first fetchPhotos call, loading is true exactly
\* while at least one fetchPhotos call is in flight, overlapping calls
\* included.
C36_LoadingWhileInFlight ==
    FetchStarted => (app.loading <=> inflight > 0)

\* what does hold of C36: every call sets loading and every call that ends
\* clears it, so the flag follows the calls as long as they do not overlap,
\* and it is false whenever none is in flight
C36_LoadingFollowsLastStep ==
    /\ [][/\ lastOp'.op = "fetchPhotos" => app'.loading
          /\ lastOp'.op = "fetchSettle" => ~app'.loading]_vars
    /\ []((FetchStarted /\ inflight = 0) => ~app.loading)

HasFormat(item) == item.Metadata /\ item.Format # Absent
HasMode(item) == item.Metadata /\ item.Mode # Absent
HasSize(item) == item.Metadata /\ Len(item.Size) = 2

SessionKept ==
    /\ authStatus'.isAuthenticated = authStatus.isAuthenticated
    /\ authStatus'.username = authStatus.username
    /\ authStatus'.token = authStatus.token
    /\ authStatus'.loading = authStatus.loading
    /\ localStorage'.kind = localStorage.kind
    /\ lastOp'.op # "advance" =>
          /\ authStatus'.tokenExpiry = authStatus.tokenExpiry
          /\ localStorage' = localStorage

\* C31: between the notification of redirectToLogin / redirectToRegister and
\* the navigation, no step of the page (the watchdog, a pending
\* checkAuthFromHash timer) changes a session field or the persisted data.
C31_NothingChangesBeforeNavigation ==
    [][(/\ timers.redirect # Unarmed
        /\ lastOp'.op \in {"watchdog"} \cup CheckOps) => SessionKept]_vars

\* what does hold of C31: the redirect sets loading, emits one notification
\* carrying it, leaves every other session field and the persisted data
\* alone, and has the navigation pending, which then goes to the first
\* target asked for
C31_RedirectAnnouncesThenNavigates ==
    [][/\ lastOp'.op \in {"login", "register"} =>
            /\ authStatus' = [authStatus EXCEPT !.loading = TRUE]
            /\ localStorage' = localStorage
            /\ Len(emitted') = 1
            /\ emitted'[1].by = lastOp'.op
            /\ emitted'[1].session = authStatus'
            /\ timers'.redirect # Unarmed
            /\ timers.redirect = Unarmed =>
                  timers'.redirect = RedirectDelay /\ timers'.redirectTo = lastOp'.op
       /\ lastOp'.op = "navigate" =>
            timers.redirect = 0 /\ location' = timers.redirectTo]_vars

\* the id_tokens whose middle part decodes to an object with a non-empty
\* name, email or username
NamedIdTokens ==
    {"h.eyJuYW1lIjoiQW5uIn0=.s", "h.eyJlbWFpbCI6ImFubkB4Lm9yZyJ9.s",
     "h.eyJ1c2VybmFtZSI6ImFubiJ9.s",
     "h.eyJuYW1lIjoiIiwiZW1haWwiOiJhbm5AeC5vcmcifQ==.s"}

StartupChecked == doc \in {"interactive", "complete"} /\ timers.startup = Unarmed

C34_RestoreRenewsExpiry ==
    /\ [](authStatus.isAuthenticated =>
            /\ authStatus.tokenExpiry.t = "iso"
            /\ authStatus.tokenExpiry.ms <= DefaultExpiresIn * 1000)
    /\ [][/\ (lastOp'.op \in RestoreOps /\ authStatus'.isAuthenticated) =>
               /\ localStorage.kind = "json" /\ InFuture(localStorage.obj.tokenExpiry)
               /\ authStatus'.tokenExpiry = toISOString(DefaultExpiresIn * 1000)
               /\ localStorage'.obj.tokenExpiry = authStatus'.tokenExpiry
               /\ localStorage.obj.tokenExpiry.ms <= authStatus'.tokenExpiry.ms
          /\ (/\ lastOp'.op = "watchdog"
              /\ authStatus.isAuthenticated /\ ~authStatus'.isAuthenticated) =>
               authStatus.tokenExpiry.ms <= 0]_vars

\* a page opened later in the life of a session has restored it: the expiry
\* is a full 3600 s ahead again
C34_Witness ==
    /\ lastOp.op \in RestoreOps /\ authStatus.isAuthenticated
    /\ exchanges > 0
    /\ authStatus.tokenExpiry = toISOString(DefaultExpiresIn * 1000)
    /\ localStorage.obj.tokenExpiry = authStatus.tokenExpiry

\* C30: within a page, the session becomes authenticated only in a step that
\* runs checkAuthFromHash: through the exchange of the code in the URL, or
\* through the restore of a persisted session that has not expired.  It
\* leaves the authenticated state only through clearAuthData (whose event the
\* step emits), called by logoutUser, by the watchdog on a session whose
\* expiry is reached, or by a restore whose persisted copy is expired or
\* unreadable.  Of these steps the watchdog's is the only one that is neither
\* a user action nor the startup check.  (The page's session object ends with
\* the page; a page load makes a new one, unauthenticated until its check.)
C30_SessionTransitions ==
    [][/\ (~authStatus.isAuthenticated /\ authStatus'.isAuthenticated) =>
            /\ lastOp'.op \in CheckOps
            /\ lastOp'.op \in ExchangeOps => Truthy(urlCode)
            /\ lastOp'.op \in RestoreOps =>
                  /\ ~Truthy(urlCode) /\ localStorage.kind = "json"
                  /\ InFuture(localStorage.obj.tokenExpiry)
       /\ (/\ authStatus.isAuthenticated /\ ~authStatus'.isAuthenticated
           /\ lastOp'.op \notin {"ClosePage", "OpenPage", "navigate"}) =>
            /\ \E i \in 1..Len(emitted') : emitted'[i].by = "clearAuthData"
            /\ lastOp'.op \in {"logoutUser", "watchdog"} \cup RestoreOps
            /\ lastOp'.op = "watchdog" => NotInFuture(authStatus.tokenExpiry)
            /\ lastOp'.op \in RestoreOps =>
                  ~(localStorage.kind = "json" /\ InFuture(localStorage.obj.tokenExpiry))]_vars

\* the watchdog has just ended a session that a check of this page had
\* authenticated
C30_Witness ==
    /\ lastOp.op = "watchdog" /\ lastOp.was
    /\ ~authStatus.isAuthenticated
    /\ localStorage = NoItem
    /\ \E i \in 1..Len(emitted) : emitted[i].by = "clearAuthData"

\* the notifications of the last step, by what the session was at each
Notified == emitted' # << >> /\ listening /\ lastOp'.op # "init"
AuthenticatedEvents == {i \in 1..Len(emitted') : emitted'[i].session.isAuthenticated}
SignedOutEvents ==
    {i \in 1..Len(emitted') : /\ ~emitted'[i].session.isAuthenticated
                              /\ ~emitted'[i].session.loading}

\* C22: on each auth:statusChanged notification the view copies
\* isAuthenticated, username and loading from the session; it starts exactly
\* one fetchPhotos per notification of an authenticated session; it empties
\* the photo set exactly when the session is neither authenticated nor
\* loading, so a notification with loading = true and isAuthenticated = FALSE
\* leaves the photo set as it was.
C22_ListenerMirrorsSession ==
    [][Notified =>
          LET last == emitted'[Len(emitted')].session
          IN  /\ app'.isAuthenticated = last.isAuthenticated
              /\ app'.username = last.username
              /\ app'.authLoading = last.loading
              /\ inflight' = inflight + Cardinality(AuthenticatedEvents)
              /\ app'.photos = (IF SignedOutEvents # {} THEN << >> ELSE app.photos)]_vars

\* the view, showing photos, has just been told of a session that is loading
\* and not authenticated
C22_Witness ==
    /\ emitted # << >> /\ listening
    /\ emitted[Len(emitted)].session.loading
    /\ ~emitted[Len(emitted)].session.isAuthenticated
    /\ app.authLoading /\ ~app.isAuthenticated
    /\ app.photos # << >>

\* C21: once the view has processed a logout or an expiry (the session and
\* the view's copy of it are unauthenticated and not loading), the view's photo
\* set is empty, and it stays so until the session is authenticated again,
\* also when a listing request in flight at the logout ends afterwards.
C21_LoggedOutViewStaysEmpty ==
    (/\ listening
     /\ ~authStatus.isAuthenticated /\ ~authStatus.loading
     /\ ~app.isAuthenticated /\ ~app.authLoading) => app.photos = << >>

\* C21, the part that holds: the step in which the view is told of a session
\* that is unauthenticated and not loading leaves the photo set empty.
C21_SignOutEmptiesPhotos ==
    [][(/\ listening /\ emitted' # << >>
        /\ ~emitted'[Len(emitted')].session.isAuthenticated
        /\ ~emitted'[Len(emitted')].session.loading) => app'.photos = << >>]_vars

\* C24: while the modal is shown (showModal = TRUE) selectedPhoto is not
\* null, also when closePhotoModal is followed by openPhotoModal before the
\* deferred clear of the close, 300 ms later, has run.
C24_ShownModalHasPhoto == app.showModal => app.selectedPhoto # NoPhoto

\* C24, the part that holds: openPhotoModal shows the modal with the clicked
\* photo selected, and only the deferred clear of a close takes a selected
\* photo away.
C24_OpenSelectsPhoto ==
    [][/\ lastOp'.op = "openPhotoModal" =>
            app'.showModal /\ app'.selectedPhoto # NoPhoto
       /\ (app.selectedPhoto # NoPhoto /\ app'.selectedPhoto = NoPhoto) =>
            lastOp'.op = "closeTimeout"]_vars

----------------------------------------------------------------------------
(* Properties of the configuration *)

\* what the build environment and the served .env file give for a setting
BuildValue(key) == IF config.node THEN config.process[key] ELSE Undefined
FileValue(key) ==
    IF config.served.kind = "ok" THEN parseEnv(config.served.lines)[key]
    ELSE Undefined

\* the build's value, else the file's, else the default
Resolved(key) ==
    IF Truthy(BuildValue(key)) THEN BuildValue(key)
    ELSE IF Truthy(FileValue(key)) THEN FileValue(key)
    ELSE defaultValue(key)

\* C20: every setting of AppConfig is the build-time value if there is one,
\* else the value the served .env file gives for its key, else the hardcoded
\* default; in particular a key the file defines and the build does not has
\* the file's value in AppConfig, although the file arrives asynchronously
\* and AppConfig is built once.
C20_FileValueReachesAppConfig ==
    (config.scripts = 2 /\ config.fetch = "settled") =>
        \A k \in ConfigKeys : config.AppConfig[k] = Resolved(k)

\* C20, the part that holds: config.js gives every setting the build-time
\* value, else the value window._env holds at the moment config.js runs,
\* else the default; so the file's value is used when the file has arrived
\* before config.js runs.
C20_PriorityAtConfigScript ==
    [][lastOp'.op = "config.js" =>
          \A k \in ConfigKeys :
              config'.AppConfig[k] =
                  (IF Truthy(BuildValue(k)) THEN BuildValue(k)
                   ELSE IF config.fetch = "settled" THEN Resolved(k)
                   ELSE defaultValue(k))]_vars

\* C20, the part that holds: AppConfig is built once and no later arrival of
\* the file changes it.
C20_AppConfigBuiltOnce ==
    [][config.scripts = 2 => config'.AppConfig = config.AppConfig]_vars

ProgressInRange ==
    /\ app.uploadProgress \in 0..100
    /\ app.processingProgress \in 0..100

\* C27: uploadProgress and processingProgress are always within 0..100; within
\* one monitoring run processingProgress is at most 95 at every poll tick and
\* as long as the loop polls, and it is exactly 100 in the step in which the
\* run reaches a terminating condition.
C27_ProgressWithinRange ==
    /\ ProgressInRange
    /\ [][/\ ProgressInRange'
          /\ lastOp'.op = "poll" => app'.processingProgress <= ProgressCap
          /\ Polling(monitor') > 0 => app'.processingProgress <= ProgressCap
          /\ (lastOp'.op = "pollSettle" /\ Polling(monitor') < Polling(monitor)) =>
                app'.processingProgress = 100]_vars

\* the seventh tick of a loop: 70 s of the expected 60 s have elapsed and the
\* progress shown is the cap
C27_Witness ==
    /\ lastOp.op = "poll"
    /\ Polling(monitor) = 1
    /\ monitor.loops[1].elapsed = TotalExpectedTime + ExtraTime
    /\ app.processingProgress = ProgressCap
    /\ app.uploadProgress = 100

\* C28: when a monitoring run reaches a terminating condition the completion
\* message is shown and the dismissal is set 2 s ahead; the dismissal clears
\* processingImage and sets a further timeout 5 s ahead, which clears
\* uploadSuccess; so every successful upload is eventually followed by a state
\* with uploading, processingImage and uploadSuccess all false.
C28_CompletionThenDismissal ==
    /\ [][/\ (lastOp'.op = "pollSettle" /\ Polling(monitor') < Polling(monitor)) =>
                /\ app'.processingMessage = "Image processing complete!"
                /\ app'.processingImage
                /\ [kind |-> "dismiss", at |-> DismissDelay] \in monitor'.timeouts
          /\ lastOp'.op = "dismiss" =>
                /\ ~app'.processingImage
                /\ [kind |-> "success", at |-> SuccessDelay] \in monitor'.timeouts
          /\ lastOp'.op = "success" => ~app'.uploadSuccess]_vars
    /\ (lastOp.op = "xhr.onload" /\ Is2xx(lastOp.status)) ~>
          (~app.uploading /\ ~app.processingImage /\ ~app.uploadSuccess)

\* the banner of a successful upload has just been cleared by the second
\* timeout, the processing display by the first
C28_Witness ==
    /\ lastOp.op = "success"
    /\ xhr.sent = 1 /\ app.processingProgress = 100
    /\ ~app.uploading /\ ~app.processingImage /\ ~app.uploadSuccess

\* C25: at most one monitoring loop is active at a time, and while a loop
\* started by a successful upload is still polling processingImage is true
\* and uploadSuccess has not been cleared, also when a second upload succeeds
\* while the monitoring of the first, or its dismissal timers, are pending.
C25_OneLoopKeepsBanner ==
    /\ Polling(monitor) <= 1
    /\ Polling(monitor) > 0 => app.processingImage /\ app.uploadSuccess

\* C25, the part that holds: every successful transfer starts a loop of its
\* own, with processingImage and uploadSuccess set, and ends none.
C25_EachSuccessStartsALoop ==
    [][(lastOp'.op = "xhr.onload" /\ Is2xx(lastOp'.status)) =>
          /\ Polling(monitor') = Polling(monitor) + 1
          /\ app'.processingImage /\ app'.uploadSuccess]_vars

\* C29: the completion step of a monitoring run (progress 100, the completion
\* message, the dismissal timeout) is executed once per run, also when several
\* poll callbacks of the run await their listing request together: a callback
\* that finds the run's interval already cancelled sets no timeout.
C29_CompletionOncePerRun ==
    [][(lastOp'.op = "pollSettle" /\ ~lastOp'.loop.polling) =>
          /\ monitor'.timeouts = monitor.timeouts
          /\ app'.processingProgress = app.processingProgress]_vars

\* C29, the part that holds: when every listing request of a poll ends before
\* the next tick, no callback finds its run's interval already cancelled.
C29_OnceWhenPromptlySettled ==
    [][lastOp'.op = "pollSettle" => lastOp'.loop.polling]_vars

----------------------------------------------------------------------------
(* Properties of the photo modal *)

\* the modal is on screen with a photo whose full-size image is still loading
ShowsLoadingPhoto == app.showModal /\ app.selectedPhoto # NoPhoto /\ modal.latest

\* C37: while the modal shows a photo whose full-size image has not settled,
\* modalLoading is true; the load callback of a photo opened before and the
\* deferred clear of an earlier closePhotoModal do not end it.
C37_LoadingWhileImagePending ==
    ShowsLoadingPhoto => app.modalLoading

\* what does hold of C37: openPhotoModal leaves the modal showing the photo
\* as loading, and only the callbacks (an image that settles, the timeout of
\* a close) end modalLoading
C37_OnlyCallbacksEndLoading ==
    [][/\ lastOp'.op = "openPhotoModal" => (ShowsLoadingPhoto' /\ app'.modalLoading)
       /\ (app.modalLoading /\ ~app'.modalLoading) =>
             lastOp'.op \in {"imageSettle", "closeTimeout"}]_vars

\* C38: openPhotoModal(photo) leaves, in one step, selectedPhoto the photo,
\* showModal true and modalLoading true; the step in which an image load
\* settles leaves modalLoading false and selectedPhoto and showModal as they
\* were, so modalLoading is false once the load has settled.
C38_OpenThenSettle ==
    /\ [][/\ lastOp'.op = "openPhotoModal" =>
                /\ \E k \in 1..Len(app.photos) : app'.selectedPhoto = << app.photos[k] >>
                /\ app'.showModal /\ app'.modalLoading
                /\ modal'.latest
          /\ lastOp'.op = "imageSettle" =>
                /\ ~app'.modalLoading
                /\ app'.selectedPhoto = app.selectedPhoto
                /\ app'.showModal = app.showModal]_vars
    /\ [](lastOp.op = "imageSettle" => ~app.modalLoading)

\* the image of the photo on screen has settled: the modal still shows the
\* photo and no longer says it is loading
C38_Witness ==
    /\ lastOp.op = "imageSettle" /\ modal.images = 0
    /\ app.showModal /\ app.selectedPhoto # NoPhoto /\ ~app.modalLoading

\* C39: closePhotoModal hides the modal at once, leaves selectedPhoto and
\* modalLoading as they are and sets a timeout of 300 ms; the passing of time
\* short of a pending timeout's delay changes neither field; the timeout runs
\* when its 300 ms have elapsed and leaves selectedPhoto null and
\* modalLoading false.
C39_CloseThenDeferredClear ==
    [][/\ lastOp'.op = "closePhotoModal" =>
             /\ ~app'.showModal
             /\ app'.selectedPhoto = app.selectedPhoto
             /\ app'.modalLoading = app.modalLoading
             /\ modal'.closing = Append(modal.closing, CloseDelay)
       /\ lastOp'.op = "advance" =>
             /\ app' = app
             /\ Len(modal'.closing) = Len(modal.closing)
             /\ \A i \in 1..Len(modal.closing) :
                   modal'.closing[i] >= 0 /\ modal'.closing[i] < modal.closing[i]
       /\ lastOp'.op = "closeTimeout" =>
             /\ modal.closing # << >> /\ Head(modal.closing) = 0
             /\ modal'.closing = Tail(modal.closing)
             /\ app'.selectedPhoto = NoPhoto /\ ~app'.modalLoading]_vars

\* 300 ms after a close of the modal that showed a photo: the timeout has run
C39_Witness ==
    /\ lastOp.op = "closeTimeout" /\ modal.closing = << >>
    /\ ~app.showModal /\ app.selectedPhoto = NoPhoto /\ ~app.modalLoading
    /\ app.photos # << >>

\* the delay of a close is running: the modal is hidden, the photo still set
C39_Pending ==
    /\ modal.closing = << CloseDelay >>
    /\ ~app.showModal /\ app.selectedPhoto # NoPhoto

\* C17: closePhotoModal can be called again while the timeout of an earlier
\* call is pending; each call hides the modal, each timeout leaves
\* selectedPhoto null and modalLoading false and does not touch showModal, and
\* the timeout of a second call, running right after the first call's, changes
\* nothing: the state is the one a single call leaves.
C17_CloseTwiceAsOnce ==
    [][/\ lastOp'.op = "closePhotoModal" =>
              /\ ~app'.showModal
              /\ app'.selectedPhoto = app.selectedPhoto
              /\ app'.modalLoading = app.modalLoading
       /\ lastOp'.op = "closeTimeout" =>
              /\ app'.selectedPhoto = NoPhoto /\ ~app'.modalLoading
              /\ app'.showModal = app.showModal
              /\ lastOp.op = "closeTimeout" => app' = app]_vars

\* the modal was closed twice in succession: the timeout of the first call has
\* just run and the timeout of the second call is due
C17_Witness ==
    /\ lastOp.op = "closeTimeout"
    /\ modal.closing = << 0 >> /\ modal.images = 0
    /\ ~app.showModal /\ app.selectedPhoto = NoPhoto /\ ~app.modalLoading
    /\ app.photos # << >>

----------------------------------------------------------------------------
(* Properties of the session and the data operations together *)

\* a step starts a listing request (of the view or of a poll) or a transfer
StartsRequest ==
    \/ inflight' > inflight
    \/ Awaited(monitor'.loops) > Awaited(monitor.loops)
    \/ xhr'.active /\ ~xhr.active

\* C18: a listing request (from a notification, a monitoring poll or a manual
\* retry) and a storage-write transfer are started only while the session is
\* authenticated, also after a logout or an expiry during an upload or a
\* monitoring run.
C18_SessionGatesRequests ==
    [][StartsRequest => authStatus'.isAuthenticated]_vars

\* what the code does for C18: the requests the user or a notification starts
\* are started while the session is authenticated (the controls are hidden
\* otherwise); the polls of a monitoring run are not gated
C18_ViewGatesUserRequests ==
    [][(StartsRequest /\ lastOp'.op # "poll") => authStatus'.isAuthenticated]_vars

=============================================================================
